---- MODULE Spec2Model ----
(***************************************************************************)
(* Model of the MCP Android emulator server (mcp-android-emulator):        *)
(* the synchronization tools wait_for_element, wait_for_element_gone,      *)
(* wait_for_ui_stable and scroll_to_text, the locating tools tap_text,     *)
(* tap_element, get_element_bounds, is_element_visible and                 *)
(* assert_screen_contains, the enumerating tools get_ui_tree, get_all_text *)
(* and get_clickable_elements, tap_safe, set_clipboard and get_clipboard,  *)
(* the adb/shell collaborator they await, and the device they poll.        *)
(*                                                                         *)
(* Strings are sequences of one-character strings, so that toLowerCase,    *)
(* includes, the fingerprint regular expression and sort are computed and  *)
(* not assumed.  One unit of time is 500 ms.                               *)
(***************************************************************************)
EXTENDS Integers, Sequences, FiniteSets, TLC

(***************************************************************************)
(* Bounds of the model                                                     *)
(***************************************************************************)
\* the clock stops advancing here
MaxTime == 5
\* largest timeout a request carries, in units of 500 ms
MaxTimeout == 4
\* largest maxScrolls a request carries
MaxScrollArg == 2
\* the largest coordinate a resized element reaches
MaxCoord == 3
\* the clipboard calls a client makes one after another
MaxCalls == 3

(***************************************************************************)
(* Characters and strings                                                  *)
(***************************************************************************)
Undef == "undefined"

\* UTF-16 code units of the characters the dumps and queries use
Code ==
  [c \in {"\n", " ", "\"", ",", "/", "0", "1", "2", "3", "4", "5", "6", "7",
          "8", "9", "<", "=", ">", "G", "K", "O", "V", "[", "]", "a", "b",
          "c", "d", "e", "g", "k", "l", "n", "o", "s", "t", "u", "v", "x",
          "|"} |->
     CASE c = "\n" -> 10 [] c = " " -> 32 [] c = "\"" -> 34 [] c = "," -> 44
       [] c = "/" -> 47 [] c = "0" -> 48 [] c = "1" -> 49 [] c = "2" -> 50
       [] c = "3" -> 51 [] c = "4" -> 52 [] c = "5" -> 53 [] c = "6" -> 54
       [] c = "7" -> 55 [] c = "8" -> 56 [] c = "9" -> 57 [] c = "<" -> 60
       [] c = "=" -> 61 [] c = ">" -> 62 [] c = "G" -> 71 [] c = "K" -> 75
       [] c = "O" -> 79 [] c = "V" -> 86 [] c = "[" -> 91 [] c = "]" -> 93
       [] c = "a" -> 97 [] c = "b" -> 98 [] c = "c" -> 99 [] c = "d" -> 100
       [] c = "e" -> 101 [] c = "g" -> 103 [] c = "k" -> 107
       [] c = "l" -> 108 [] c = "n" -> 110 [] c = "o" -> 111
       [] c = "s" -> 115 [] c = "t" -> 116 [] c = "u" -> 117
       [] c = "v" -> 118 [] c = "x" -> 120 [] c = "|" -> 124]

Digits == {"0", "1", "2", "3", "4", "5", "6", "7", "8", "9"}

\* String.prototype.toLowerCase, one character
LowerChar(c) ==
  CASE c = "G" -> "g" [] c = "K" -> "k" [] c = "O" -> "o" [] c = "V" -> "v"
    [] c = "A" -> "a" [] c = "B" -> "b" [] c = "I" -> "i" [] c = "L" -> "l"
    [] c = "N" -> "n" [] c = "S" -> "s"
    [] OTHER -> c

\* String.prototype.toLowerCase
toLowerCase(s) == [k \in 1..Len(s) |-> LowerChar(s[k])]

\* does the literal lit occur in s at position p (1-based)
StartsWith(s, p, lit) ==
  /\ p >= 1
  /\ p + Len(lit) - 1 <= Len(s)
  /\ \A k \in 1..Len(lit) : s[p + k - 1] = lit[k]

\* String.prototype.includes
includes(s, sub) == \E p \in 1..(Len(s) + 1) : StartsWith(s, p, sub)

\* the predicate of wait_for_element, wait_for_element_gone and
\* scroll_to_text without the case folding
includesRaw(xml, text) == includes(xml, text)

\* xml.toLowerCase().includes(text.toLowerCase())
includesCI(xml, text) == includes(toLowerCase(xml), toLowerCase(text))

\* string comparison of Array.prototype.sort without a comparator:
\* by UTF-16 code units, a proper prefix first
RECURSIVE StrLess(_, _)
StrLess(a, b) ==
  IF b = <<>> THEN FALSE
  ELSE IF a = <<>> THEN TRUE
  ELSE IF Code[Head(a)] < Code[Head(b)] THEN TRUE
  ELSE IF Code[Head(a)] > Code[Head(b)] THEN FALSE
  ELSE StrLess(Tail(a), Tail(b))

\* insert e into the sorted list l, after the elements not greater than it
RECURSIVE InsertSorted(_, _)
InsertSorted(l, e) ==
  IF l = <<>> THEN <<e>>
  ELSE IF StrLess(e, Head(l)) THEN <<e>> \o l
  ELSE <<Head(l)>> \o InsertSorted(Tail(l), e)

\* Array.prototype.sort on strings
RECURSIVE sort(_)
sort(l) == IF l = <<>> THEN <<>> ELSE InsertSorted(sort(Tail(l)), Head(l))

\* Array.prototype.join
RECURSIVE join(_, _)
join(l, sep) ==
  IF l = <<>> THEN <<>>
  ELSE IF Len(l) = 1 THEN l[1]
  ELSE l[1] \o sep \o join(Tail(l), sep)

\* Math.round of n * tenths / 10 for n >= 0
RoundTenths(n, tenths) == (2 * n * tenths + 10) \div 20

\* Math.round(n / 2) for n >= 0
RoundHalf(n) == (n + 1) \div 2

(***************************************************************************)
(* The markup dumps the device can show                                    *)
(***************************************************************************)
Quote == <<"\"">>
TextEq == <<"t", "e", "x", "t", "=", "\"">>
ClassEq == <<"c", "l", "a", "s", "s", "=", "\"">>
BoundsEq == <<"b", "o", "u", "n", "d", "s", "=", "\"">>
NodeOpen == <<"<", "n", "o", "d", "e", " ">>
NodeClose == <<"/", ">">>

\* bounds="[x1,y1][x2,y2]" with one-digit components
BoundsAttr(x1, y1, x2, y2) ==
  BoundsEq \o <<"[", x1, ",", y1, "]", "[", x2, ",", y2, "]">> \o Quote

\* a dump without node delimiters: text="..." bounds="[..][..]"
LooseDump(text, x1, y1, x2, y2) ==
  TextEq \o text \o Quote \o <<" ">> \o BoundsAttr(x1, y1, x2, y2)

\* a dump as uiautomator writes it:
\* <node text="..." class="..." bounds="[..][..]"/>
NodeDump(text, class, x1, y1, x2, y2) ==
  NodeOpen \o TextEq \o text \o Quote \o <<" ">> \o ClassEq \o class \o Quote
    \o <<" ">> \o BoundsAttr(x1, y1, x2, y2) \o NodeClose

\* the screens of the device, each by the dump uiautomator writes for it
Dumps ==
  << LooseDump(<<"O", "k">>, "0", "0", "1", "1"),
     LooseDump(<<"G", "o">>, "0", "0", "1", "1"),
     NodeDump(<<"O", "k">>, <<"V">>, "0", "0", "2", "2") >>

Screens == DOMAIN Dumps

\* the texts a request asks for
Texts == << <<"o", "k">>, <<"G", "O">> >>

\* ------------------------------------------------------------------------
\* extractUIFingerprint, whose regular expression is
\*   /(?:text="([^"]*)")?[^>]*(?:class="([^"]*)")?[^>]*
\*      bounds="\[(\d+),(\d+)\]\[(\d+),(\d+)\]"/g
\* ------------------------------------------------------------------------
\* the position of the first c at or after p, Len(s)+1 when there is none
RECURSIVE IndexOfFrom(_, _, _)
IndexOfFrom(s, p, c) ==
  IF p > Len(s) THEN Len(s) + 1
  ELSE IF s[p] = c THEN p
  ELSE IndexOfFrom(s, p + 1, c)

\* the position after the longest run of digits that starts at p
RECURSIVE DigitsEnd(_, _)
DigitsEnd(s, p) ==
  IF p <= Len(s) /\ s[p] \in Digits THEN DigitsEnd(s, p + 1) ELSE p

\* name="([^"]*)" at position p, whose value ends at the quote at close
AttrGroupClosed(s, p, nameEq, close) ==
  IF StartsWith(s, p, nameEq) /\ close <= Len(s)
    THEN [ok |-> TRUE, val |-> SubSeq(s, p + Len(nameEq), close - 1),
          end |-> close + 1]
    ELSE [ok |-> FALSE, val |-> Undef, end |-> p]

\* name="([^"]*)" at position p: the capture and the position after it
AttrGroupAt(s, p, nameEq) ==
  AttrGroupClosed(s, p, nameEq, IndexOfFrom(s, p + Len(nameEq), "\""))

\* (\d+) from p to before e, followed by the literal lit
NumberUpTo(s, p, e, lit) ==
  IF e > p /\ StartsWith(s, e, lit)
    THEN [ok |-> TRUE, val |-> SubSeq(s, p, e - 1), end |-> e + Len(lit)]
    ELSE [ok |-> FALSE, val |-> Undef, end |-> p]

\* (\d+) at position p followed by the literal lit
NumberAt(s, p, lit) == NumberUpTo(s, p, DigitsEnd(s, p), lit)

NoBounds ==
  [ok |-> FALSE, x1 |-> Undef, y1 |-> Undef, x2 |-> Undef, y2 |-> Undef,
   end |-> 0]

BoundsOpen == BoundsEq \o <<"[">>

\* ...(\d+)\]" : the fourth number closes the attribute
Bounds4(n1, n2, n3, n4) ==
  IF n4.ok
    THEN [ok |-> TRUE, x1 |-> n1.val, y1 |-> n2.val, x2 |-> n3.val,
          y2 |-> n4.val, end |-> n4.end]
    ELSE NoBounds

\* ...(\d+),(\d+)\]"
Bounds3(s, n1, n2, n3) ==
  IF n3.ok THEN Bounds4(n1, n2, n3, NumberAt(s, n3.end, <<"]", "\"">>))
  ELSE NoBounds

\* ...(\d+)\]\[(\d+),(\d+)\]"
Bounds2(s, n1, n2) ==
  IF n2.ok THEN Bounds3(s, n1, n2, NumberAt(s, n2.end, <<",">>))
  ELSE NoBounds

\* (\d+),(\d+)\]\[(\d+),(\d+)\]"
Bounds1(s, n1) ==
  IF n1.ok THEN Bounds2(s, n1, NumberAt(s, n1.end, <<"]", "[">>))
  ELSE NoBounds

\* bounds="\[(\d+),(\d+)\]\[(\d+),(\d+)\]" at position p
BoundsAt(s, p) ==
  IF StartsWith(s, p, BoundsOpen)
    THEN Bounds1(s, NumberAt(s, p + Len(BoundsOpen), <<",">>))
    ELSE NoBounds

\* the positions [^>]* can stop at when it starts at p
NonGtStops(s, p) == p..IndexOfFrom(s, p, ">")

Max(S) == CHOOSE m \in S : \A n \in S : n <= m

Min(S) == CHOOSE m \in S : \A n \in S : m <= n

NoMatch ==
  [ok |-> FALSE, text |-> Undef, className |-> Undef, x1 |-> Undef,
   y1 |-> Undef, x2 |-> Undef, y2 |-> Undef, end |-> 0]

\* bounds=... at the last of the positions stops
LastBounds(s, stops) ==
  IF stops = {} THEN NoBounds ELSE BoundsAt(s, Max(stops))

\* [^>]*bounds=... from position p: the greedy [^>]* keeps the longest
\* stretch after which bounds=... matches
GreedyBoundsFrom(s, p) ==
  LastBounds(s, {r \in NonGtStops(s, p) : BoundsAt(s, r).ok})

\* the rest of the expression with the class group skipped
ClassTailSkipped(b) == [ok |-> b.ok, className |-> Undef, b |-> b]

\* the rest of the expression after the class group g matched
ClassTailTaken(s, q, g, b) ==
  IF b.ok THEN [ok |-> TRUE, className |-> g.val, b |-> b]
  ELSE ClassTailSkipped(GreedyBoundsFrom(s, q))

\* (?:class="([^"]*)")?[^>]*bounds=... from position q, g being the class
\* group at q: the group is tried first, and skipped when the rest fails
ClassTailFor(s, q, g) ==
  IF g.ok THEN ClassTailTaken(s, q, g, GreedyBoundsFrom(s, g.end))
  ELSE ClassTailSkipped(GreedyBoundsFrom(s, q))

\* (?:class="([^"]*)")?[^>]*bounds=... from position q
ClassTailAt(s, q) == ClassTailFor(s, q, AttrGroupAt(s, q, ClassEq))

\* (?:class=...)?[^>]*bounds=... at the last of the positions stops
LastClassTail(s, stops) ==
  IF stops = {} THEN ClassTailSkipped(NoBounds)
  ELSE ClassTailAt(s, Max(stops))

\* [^>]*(?:class=...)?[^>]*bounds=... from position p
GreedyClassFrom(s, p) ==
  LastClassTail(s, {q \in NonGtStops(s, p) : ClassTailAt(s, q).ok})

\* a match of the whole expression: the text capture and the rest
MatchOf(text, rest) ==
  IF rest.ok
    THEN [ok |-> TRUE, text |-> text, className |-> rest.className,
          x1 |-> rest.b.x1, y1 |-> rest.b.y1, x2 |-> rest.b.x2,
          y2 |-> rest.b.y2, end |-> rest.b.end]
    ELSE NoMatch

\* the whole expression at p after the text group g matched
MatchTaken(s, p, g, rest) ==
  IF rest.ok THEN MatchOf(g.val, rest)
  ELSE MatchOf(Undef, GreedyClassFrom(s, p))

\* the whole expression at p, g being the text group at p: the group is
\* tried first, and skipped when the rest fails
MatchFor(s, p, g) ==
  IF g.ok THEN MatchTaken(s, p, g, GreedyClassFrom(s, g.end))
  ELSE MatchOf(Undef, GreedyClassFrom(s, p))

\* one attempt of the whole expression at position p
MatchAt(s, p) == MatchFor(s, p, AttrGroupAt(s, p, TextEq))

RECURSIVE exec(_, _)

\* the attempt m at lastIndex, or the next position
ExecFrom(s, lastIndex, m) == IF m.ok THEN m ELSE exec(s, lastIndex + 1)

\* regex.exec(xml) with lastIndex: the leftmost position with a match
exec(s, lastIndex) ==
  IF lastIndex > Len(s) + 1 THEN NoMatch
  ELSE ExecFrom(s, lastIndex, MatchAt(s, lastIndex))

\* a captured group as a condition: undefined and "" are falsy
Truthy(v) == v # Undef /\ v # <<>>

\* v || ""
OrEmpty(v) == IF Truthy(v) THEN v ELSE <<>>

\* `${text || ""}|${className || ""}|${x1},${y1},${x2},${y2}`
RecordOf(m) ==
  OrEmpty(m.text) \o <<"|">> \o OrEmpty(m.className) \o <<"|">>
    \o m.x1 \o <<",">> \o m.y1 \o <<",">> \o m.x2 \o <<",">> \o m.y2

RECURSIVE FingerprintRecords(_, _)

\* the body of the while loop for the match m
RecordsAfter(xml, m) ==
  IF ~m.ok THEN <<>>
  ELSE IF Truthy(m.text) \/ Truthy(m.className)
    THEN <<RecordOf(m)>> \o FingerprintRecords(xml, m.end)
  ELSE FingerprintRecords(xml, m.end)

\* the while loop of extractUIFingerprint: the records pushed from lastIndex on
FingerprintRecords(xml, lastIndex) == RecordsAfter(xml, exec(xml, lastIndex))

extractUIFingerprint(xml) == join(sort(FingerprintRecords(xml, 1)), <<"\n">>)

\* the fingerprint of each screen's dump
FingerprintOf ==
  << extractUIFingerprint(Dumps[1]), extractUIFingerprint(Dumps[2]),
     extractUIFingerprint(Dumps[3]) >>

(***************************************************************************)
(* The locating tools: tap_text, tap_element, get_element_bounds,          *)
(* is_element_visible, assert_screen_contains                              *)
(***************************************************************************)
ResourceIdEq ==
  <<"r", "e", "s", "o", "u", "r", "c", "e", "-", "i", "d", "=", "\"">>
DescEq ==
  <<"c", "o", "n", "t", "e", "n", "t", "-", "d", "e", "s", "c", "=", "\"">>

\* one node of a layout as uiautomator writes it: <node text="..."
\* resource-id="..." content-desc="..." bounds="[..][..]"/>
NodeMarkup(e) ==
  NodeOpen \o TextEq \o e.text \o Quote \o <<" ">> \o ResourceIdEq \o e.id
    \o Quote \o <<" ">> \o DescEq \o e.desc \o Quote \o <<" ">>
    \o BoundsAttr(e.b[1], e.b[2], e.b[3], e.b[4]) \o NodeClose

\* the dump of a layout: its nodes in document order
RECURSIVE Markup(_)
Markup(nodes) ==
  IF nodes = <<>> THEN <<>> ELSE NodeMarkup(Head(nodes)) \o Markup(Tail(nodes))

\* the layouts the device shows to the locating tools
Layouts ==
  << << [text |-> <<"L", "o", "g", "i", "n">>, id |-> <<"a", ":", "b">>,
         desc |-> <<>>,
         b |-> <<"0", "0", "2", "2">>],
        [text |-> <<"L", "o", "g">>, id |-> <<"a", ":", "c">>,
         desc |-> <<"L", "o", "g", "i", "n">>,
         b |-> <<"0", "2", "2", "4">>],
        [text |-> <<"L", "O", "G", "I", "N">>, id |-> <<>>, desc |-> <<>>,
         b |-> <<"0", "4", "3", "6">>] >>,
     << [text |-> <<"a", ".", "c">>, id |-> <<"a", ".", "b">>, desc |-> <<>>,
         b |-> <<"0", "0", "4", "2">>],
        [text |-> <<"a", "b", "c">>, id |-> <<"a", "x", "b">>, desc |-> <<>>,
         b |-> <<"0", "2", "4", "4">>],
        [text |-> <<"a", "(", "c">>, id |-> <<"A", ".", "B">>, desc |-> <<>>,
         b |-> <<"1", "4", "4", "7">>],
        [text |-> <<>>, id |-> <<"a", ".", "b", "c">>,
         desc |-> <<"a", ".", "c">>,
         b |-> <<"0", "7", "2", "9">>] >> >>

\* the dump uiautomator writes for each layout
LayoutDumps == [l \in DOMAIN Layouts |-> Markup(Layouts[l])]

\* the texts and resource ids a locating request can carry; the first of
\* each is the argument left out
QueryTexts ==
  <<Undef, <<"o", "g", "i", "n">>, <<"L", "o", "g">>,
    <<"l", "o", "g", "i", "n">>, <<"a", ".", "c">>, <<"(">> >>
QueryIds == <<Undef, <<"a", ".", "b">>, <<"a", ":", "c">>, <<"(">> >>
QueryIndexes == {-1, 0, 1, 2}

\* the characters text.replace(/[.*+?^${}()|[\]\\]/g, "\\$&") escapes
MetaChars ==
  {".", "*", "+", "?", "^", "$", "{", "}", "(", ")", "|", "[", "]", "\\"}

\* the text interpolated without the replace
escapeNothing(text) == text

\* text.replace(/[.*+?^${}()|[\]\\]/g, "\\$&")
RECURSIVE escapeRegExp(_)
escapeRegExp(text) ==
  IF text = <<>> THEN <<>>
  ELSE (IF Head(text) \in MetaChars THEN <<"\\", Head(text)>>
        ELSE <<Head(text)>>) \o escapeRegExp(Tail(text))

\* new RegExp reading the interpolated part of a pattern: \c is the
\* character c, . is any character but a line terminator, ^ and $ are
\* assertions that fail inside a line, a lone ( or ) is a SyntaxError; the
\* quantifiers, classes and alternation are not among the requests' queries
RECURSIVE ParseAtoms(_)
ParseAtoms(src) ==
  IF src = <<>> THEN <<>>
  ELSE IF Head(src) = "\\" /\ Len(src) >= 2
    THEN <<[kind |-> "char", ch |-> src[2]]>>
           \o ParseAtoms(SubSeq(src, 3, Len(src)))
  ELSE <<[kind |-> CASE Head(src) = "." -> "any"
                     [] Head(src) \in {"^", "$"} -> "never"
                     [] Head(src) \in {"(", ")"} -> "SyntaxError"
                     [] Head(src) \in MetaChars -> "other"
                     [] OTHER -> "char",
          ch |-> Head(src)]>> \o ParseAtoms(Tail(src))

\* one atom against one character, without the flag i
AtomMatchesCaseSensitive(a, c) ==
  CASE a.kind = "char" -> a.ch = c
    [] a.kind = "any" -> c \notin {"\n", "\r"}
    [] OTHER -> FALSE

\* one atom against one character, under the flag i
AtomMatches(a, c) ==
  CASE a.kind = "char" -> LowerChar(a.ch) = LowerChar(c)
    [] a.kind = "any" -> c \notin {"\n", "\r"}
    [] OTHER -> FALSE

\* the interpolated part of a pattern at position j
BodyAt(s, j, atoms) ==
  /\ j + Len(atoms) - 1 <= Len(s)
  /\ \A k \in 1..Len(atoms) : AtomMatches(atoms[k], s[j + k - 1])

\* a literal of a pattern at position p, under the flag i
StartsWithCI(s, p, lit) ==
  /\ p + Len(lit) - 1 <= Len(s)
  /\ \A k \in 1..Len(lit) : LowerChar(s[p + k - 1]) = LowerChar(lit[k])

\* bounds=... at the first of the positions starts
FirstBounds(s, starts) ==
  IF starts = {} THEN NoBounds ELSE BoundsAt(s, Min(starts))

\* .*?bounds=... from position q: the lazy .*? takes the shortest stretch,
\* without a line terminator, after which bounds=... matches
LazyBoundsFrom(s, q) ==
  FirstBounds(s, {r \in q..Len(s) :
                    /\ BoundsAt(s, r).ok
                    /\ \A k \in q..(r - 1) : s[k] \notin {"\n", "\r"}})

\* what follows the closing quote of the attribute: [^>]*bounds=... in
\* tap_element, .*?bounds=... in the other tools
SepBoundsFrom(s, q, sep) ==
  IF sep = "[^>]*" THEN GreedyBoundsFrom(s, q) ELSE LazyBoundsFrom(s, q)

\* "<sep>bounds=... with the closing quote expected at position e
ClosedAt(s, e, sep) ==
  IF e <= Len(s) /\ s[e] = "\"" THEN SepBoundsFrom(s, e + 1, sep)
  ELSE NoBounds

\* <body>[^"]*"<sep>bounds=... from position j
PartialTailAt(s, j, pat) ==
  IF BodyAt(s, j, pat.body)
    THEN ClosedAt(s, IndexOfFrom(s, j + Len(pat.body), "\""), pat.sep)
    ELSE NoBounds

\* the attempt at the last of the positions stops
LastPartialTail(s, stops, pat) ==
  IF stops = {} THEN NoBounds ELSE PartialTailAt(s, Max(stops), pat)

\* [^"]*<body>[^"]*"<sep>bounds=... from position v: the greedy [^"]* keeps
\* the longest stretch after which the rest matches
PartialFrom(s, v, pat) ==
  LastPartialTail(s, {j \in v..IndexOfFrom(s, v, "\"") :
                        PartialTailAt(s, j, pat).ok}, pat)

\* <body>"<sep>bounds=... from position v
ExactFrom(s, v, pat) ==
  IF BodyAt(s, v, pat.body) THEN ClosedAt(s, v + Len(pat.body), pat.sep)
  ELSE NoBounds

\* one attempt of the pattern at position p
PatternAt(s, p, pat) ==
  IF ~StartsWithCI(s, p, pat.attr) THEN NoBounds
  ELSE IF pat.partial THEN PartialFrom(s, p + Len(pat.attr), pat)
  ELSE ExactFrom(s, p + Len(pat.attr), pat)

\* the attempt at the first of the positions starts
FirstPatternAt(s, starts, pat) ==
  IF starts = {} THEN NoBounds ELSE PatternAt(s, Min(starts), pat)

\* regex.exec(xml) from lastIndex: the leftmost position with a match
regexExec(s, lastIndex, pat) ==
  FirstPatternAt(s, {p \in lastIndex..Len(s) : PatternAt(s, p, pat).ok}, pat)

\* parseInt of a run of digits
RECURSIVE parseInt(_)
parseInt(d) ==
  IF d = <<>> THEN 0
  ELSE 10 * parseInt(SubSeq(d, 1, Len(d) - 1)) + (Code[d[Len(d)]] - 48)

\* { x1: parseInt(match[1]), y1: ..., x2: ..., y2: ... }
MatchRect(m) ==
  [x1 |-> parseInt(m.x1), y1 |-> parseInt(m.y1), x2 |-> parseInt(m.x2),
   y2 |-> parseInt(m.y2)]

RECURSIVE matchesFrom(_, _, _)

\* the body of while ((match = regex.exec(xml)) !== null) for the match m
MatchesAfter(xml, pat, m) ==
  IF m.ok THEN <<MatchRect(m)>> \o matchesFrom(xml, m.end, pat) ELSE <<>>

\* the matches pushed by the loop under the flag g, from lastIndex on
matchesFrom(xml, lastIndex, pat) ==
  MatchesAfter(xml, pat, regexExec(xml, lastIndex, pat))

\* const match = regex.exec(xml) without the flag g: the first match only
FirstRect(m) == IF m.ok THEN <<MatchRect(m)>> ELSE <<>>

firstMatch(xml, pat) == FirstRect(regexExec(xml, 1, pat))

\* new RegExp(`<attr>...<src>..."<sep>bounds=...`, flags)
Pattern(attr, partial, src, sep) ==
  [attr |-> attr, partial |-> partial, body |-> ParseAtoms(src), sep |-> sep]

\* new RegExp throws for this pattern
ThrowsSyntaxError(pat) ==
  \E k \in DOMAIN pat.body : pat.body[k].kind = "SyntaxError"

\* what a locating tool returns or throws; rect is Undef without a match
LocateResult(kind, matchCount, rect) ==
  [kind |-> kind, matchCount |-> matchCount, rect |-> rect]

\* Math.round((m.x1 + m.x2) / 2) with Math.floor in place of Math.round
CenterFloor(rect) == <<(rect.x1 + rect.x2) \div 2, (rect.y1 + rect.y2) \div 2>>

\* Math.round((m.x1 + m.x2) / 2), Math.round((m.y1 + m.y2) / 2)
Center(rect) == <<RoundHalf(rect.x1 + rect.x2), RoundHalf(rect.y1 + rect.y2)>>

\* the choice among the matches with index left out of account
SelectFirst(matches, index) ==
  IF matches = <<>> THEN LocateResult("not_found", 0, Undef)
  ELSE LocateResult("found", Len(matches), matches[1])

\* if (matches.length === 0) ...; if (index >= matches.length) ...;
\* const m = matches[index]; m.x1: undefined.x1 throws a TypeError
Select(matches, index) ==
  IF matches = <<>> THEN LocateResult("not_found", 0, Undef)
  ELSE IF index >= Len(matches)
    THEN LocateResult("out_of_range", Len(matches), Undef)
  ELSE IF index + 1 \notin DOMAIN matches
    THEN LocateResult("TypeError", Len(matches), Undef)
  ELSE LocateResult("found", Len(matches), matches[index + 1])

\* new RegExp(pattern, "gi"), the while loop and the choice by index
LocateByIndex(xml, pat, index) ==
  IF ThrowsSyntaxError(pat) THEN LocateResult("SyntaxError", 0, Undef)
  ELSE Select(matchesFrom(xml, 1, pat), index)

\* new RegExp(pattern, "i") and one regex.exec
LocateFirst(xml, pat) ==
  IF ThrowsSyntaxError(pat) THEN LocateResult("SyntaxError", 0, Undef)
  ELSE Select(firstMatch(xml, pat), 0)

\* the pattern of a text query
TextPattern(text, exact, sep) ==
  Pattern(TextEq, ~exact, escapeRegExp(text), sep)

\* the pattern of a resource-id query: resourceId is interpolated as it is
IdPattern(resourceId, sep) == Pattern(ResourceIdEq, FALSE, resourceId, sep)

\* the branch of tap_element with text tried before resourceId
tapElementTextFirst(xml, q) ==
  IF Truthy(q.text)
    THEN LocateByIndex(xml, TextPattern(q.text, q.exact, "[^>]*"), q.index)
    ELSE LocateByIndex(xml, IdPattern(q.resourceId, "[^>]*"), q.index)

\* tap_element: if (resourceId) ... else if (exact) ... else ...
tapElementLocate(xml, q) ==
  IF Truthy(q.resourceId)
    THEN LocateByIndex(xml, IdPattern(q.resourceId, "[^>]*"), q.index)
    ELSE LocateByIndex(xml, TextPattern(q.text, q.exact, "[^>]*"), q.index)

\* get_element_bounds: if (text) ... else ...
getElementBoundsLocate(xml, q) ==
  IF Truthy(q.text)
    THEN LocateByIndex(xml, TextPattern(q.text, FALSE, ".*?"), q.index)
    ELSE LocateByIndex(xml, IdPattern(q.resourceId, ".*?"), q.index)

\* is_element_visible: if (resourceId && !found)
VisibleById(xml, q, byText) ==
  IF Truthy(q.resourceId) /\ byText.kind # "found"
    THEN LocateFirst(xml, IdPattern(q.resourceId, ".*?"))
    ELSE byText

\* is_element_visible: if (text) ...; if (resourceId && !found) ...
isElementVisibleLocate(xml, q) ==
  VisibleById(xml, q,
              IF Truthy(q.text)
                THEN LocateFirst(xml, TextPattern(q.text, FALSE, ".*?"))
                ELSE LocateResult("not_found", 0, Undef))

\* tap_text: exact ? `text="..."` : `text="[^"]*...[^"]*"`, flag i
tapTextLocate(xml, q) == LocateFirst(xml, TextPattern(q.text, q.exact, ".*?"))

\* assert_screen_contains with the exact branch folding the case
assertFoundFolded(xml, q) ==
  IF q.exact THEN includesCI(xml, TextEq \o q.text \o Quote)
  ELSE includesCI(xml, q.text)

\* assert_screen_contains: exact ? xml.includes(`text="${text}"`)
\*   : xml.toLowerCase().includes(text.toLowerCase())
assertFound(xml, q) ==
  IF q.exact THEN includes(xml, TextEq \o q.text \o Quote)
  ELSE includesCI(xml, q.text)

assertScreenContains(xml, q) ==
  LocateResult(IF assertFound(xml, q) THEN "found" ELSE "not_found", 0, Undef)

\* bounds: { x: m.x1, y: m.y1, width: m.x2 - m.x1, height: m.y2 - m.y1 }
BoundsOf(m) ==
  [x |-> m.x1, y |-> m.y1, width |-> m.x2 - m.x1, height |-> m.y2 - m.y1]

\* what get_element_bounds returns for the result of its locate
boundsReport(res, index) ==
  IF res.kind = "found"
    THEN [found |-> TRUE, matchCount |-> res.matchCount, index |-> index,
          bounds |-> BoundsOf(res.rect),
          center |-> [x |-> Center(res.rect)[1], y |-> Center(res.rect)[2]]]
    ELSE [found |-> FALSE]

LocateTools == {"tap_element", "get_element_bounds", "is_element_visible"}
TextTools == {"tap_text", "assert_screen_contains"}
TapTools == {"tap_text", "tap_element"}

\* what the handler of a tool computes from the dump it has read
ToolResult(tool, xml, q) ==
  CASE tool = "tap_element" -> tapElementLocate(xml, q)
    [] tool = "get_element_bounds" -> getElementBoundsLocate(xml, q)
    [] tool = "is_element_visible" -> isElementVisibleLocate(xml, q)
    [] tool = "tap_text" -> tapTextLocate(xml, q)
    [] tool = "assert_screen_contains" -> assertScreenContains(xml, q)

\* the arguments of a locating request, after the defaults of the handler's
\* signature (index = 0, exact = false)
LocateArgSets ==
  [tool : {"tap_element"}, text : DOMAIN QueryTexts,
   resourceId : DOMAIN QueryIds, index : QueryIndexes, exact : BOOLEAN]
  \cup
  [tool : {"get_element_bounds"}, text : DOMAIN QueryTexts,
   resourceId : DOMAIN QueryIds, index : QueryIndexes, exact : {FALSE}]
  \cup
  [tool : {"is_element_visible"}, text : DOMAIN QueryTexts,
   resourceId : DOMAIN QueryIds, index : {0}, exact : {FALSE}]
  \cup
  [tool : TextTools, text : DOMAIN QueryTexts \ {1}, resourceId : {1},
   index : {0}, exact : BOOLEAN]

(***************************************************************************)
(* The enumerating tools: get_ui_tree, get_all_text,                       *)
(* get_clickable_elements                                                  *)
(***************************************************************************)
ClickableEq ==
  <<"c", "l", "i", "c", "k", "a", "b", "l", "e", "=", "\"">>
EnabledEq == <<"e", "n", "a", "b", "l", "e", "d", "=", "\"">>
TrueText == <<"t", "r", "u", "e">>
FalseText == <<"f", "a", "l", "s", "e">>
NodeTag == <<"<", "n", "o", "d", "e">>
ClickableTrue == ClickableEq \o TrueText \o Quote
EnabledFalse == EnabledEq \o FalseText \o Quote
EmptyLabel == <<"(", "e", "m", "p", "t", "y", ")">>

\* the value of a boolean attribute as uiautomator writes it
BoolText(v) == IF v THEN TrueText ELSE FalseText

\* bounds="[x1,y1][x2,y2]", each component a decimal integer
BoundsText(b) ==
  BoundsEq \o <<"[">> \o b[1] \o <<",">> \o b[2] \o <<"]", "[">> \o b[3]
    \o <<",">> \o b[4] \o <<"]">> \o Quote

\* the bounds uiautomator reports for the elements of the enumerated
\* screens; an element scrolled above the top of the display keeps its
\* negative ordinates
EnumBounds ==
  { << <<"0">>, <<"0">>, <<"2">>, <<"2">> >>,
    << <<"2">>, <<"0">>, <<"4">>, <<"2">> >>,
    << <<"0">>, <<"2">>, <<"2">>, <<"4">> >>,
    << <<"0">>, <<"-", "2">>, <<"2">>, <<"0">> >> }

\* the elements of the enumerated screens
EnumElements ==
  {e \in [text : {<<>>, <<"O", "k">>, <<"G", "o">>}, b : EnumBounds,
          clickable : BOOLEAN, enabled : BOOLEAN] :
     ~e.clickable => e.enabled}

\* an enumerated screen: one or two elements in document order
EnumScreens ==
  {<<e>> : e \in EnumElements}
    \cup {<<e1, e2>> : e1 \in EnumElements, e2 \in EnumElements}

\* one node as uiautomator writes it: <node text="..." clickable="..."
\* enabled="..." bounds="[..][..]"/>
EnumNode(e) ==
  NodeOpen \o TextEq \o e.text \o Quote \o <<" ">> \o ClickableEq
    \o BoolText(e.clickable) \o Quote \o <<" ">> \o EnabledEq
    \o BoolText(e.enabled) \o Quote \o <<" ">> \o BoundsText(e.b)
    \o NodeClose

\* the dump uiautomator writes for an enumerated screen
EnumDump(sc) ==
  IF Len(sc) = 1 THEN EnumNode(sc[1]) ELSE EnumNode(sc[1]) \o EnumNode(sc[2])

\* text="([^"]*)"<sep>bounds=... at p, g being the text group at p
PairFor(s, g, sep) ==
  IF g.ok THEN MatchOf(g.val, ClassTailSkipped(SepBoundsFrom(s, g.end, sep)))
  ELSE NoMatch

\* one attempt of text="([^"]*)"<sep>bounds=... at position p
PairAt(s, p, sep) == PairFor(s, AttrGroupAt(s, p, TextEq), sep)

\* the attempt at the first of the positions starts
FirstPairAt(s, starts, sep) ==
  IF starts = {} THEN NoMatch ELSE PairAt(s, Min(starts), sep)

\* regex.exec(xml) from lastIndex: the leftmost position with a match
pairExec(s, lastIndex, sep) ==
  FirstPairAt(s, {p \in lastIndex..Len(s) : PairAt(s, p, sep).ok}, sep)

\* { text, centerX: Math.round((parseInt(x1) + parseInt(x2)) / 2),
\*   centerY: Math.round((parseInt(y1) + parseInt(y2)) / 2) }
ElementAt(text, center) ==
  [text |-> text, centerX |-> center[1], centerY |-> center[2]]

\* if (text || includeEmpty) texts.push({ text: text || "(empty)", ... })
Pushed(m, includeEmpty) ==
  IF Truthy(m.text) THEN <<ElementAt(m.text, Center(MatchRect(m)))>>
  ELSE IF includeEmpty THEN <<ElementAt(EmptyLabel, Center(MatchRect(m)))>>
  ELSE <<>>

RECURSIVE pushedFrom(_, _, _, _)

\* the body of while ((match = regex.exec(xml)) !== null) for the match m
PushedAfter(xml, sep, includeEmpty, m) ==
  IF m.ok
    THEN Pushed(m, includeEmpty) \o pushedFrom(xml, m.end, sep, includeEmpty)
    ELSE <<>>

\* the elements pushed by the loop from lastIndex on
pushedFrom(xml, lastIndex, sep, includeEmpty) ==
  PushedAfter(xml, sep, includeEmpty, pairExec(xml, lastIndex, sep))

\* a.centerY - b.centerY || a.centerX - b.centerX with the second term
\* left out
CompareRows(a, b) == a.centerY - b.centerY

\* (a, b) => a.centerY - b.centerY || a.centerX - b.centerX
Compare(a, b) ==
  IF a.centerY - b.centerY # 0 THEN a.centerY - b.centerY
  ELSE a.centerX - b.centerX

\* e placed before the first element of the sorted list l that does not
\* precede it
RECURSIVE InsertElement(_, _)
InsertElement(l, e) ==
  IF l = <<>> THEN <<e>>
  ELSE IF Compare(e, Head(l)) <= 0 THEN <<e>> \o l
  ELSE <<Head(l)>> \o InsertElement(Tail(l), e)

\* Array.prototype.sort with the comparator: stable
RECURSIVE sortElements(_)
sortElements(l) ==
  IF l = <<>> THEN <<>> ELSE InsertElement(sortElements(Tail(l)), Head(l))

\* what an enumerating tool has pushed, and what it lists
Listing(pushed, listed) == [pushed |-> pushed, listed |-> listed]

\* get_ui_tree: /text="([^"]*)".*?bounds=.../g, the elements in the order
\* of the matches
getUiTree(xml) ==
  Listing(pushedFrom(xml, 1, ".*?", FALSE), pushedFrom(xml, 1, ".*?", FALSE))

\* get_all_text: /text="([^"]*)"[^>]*bounds=.../g, then texts.sort(...)
getAllText(xml, includeEmpty) ==
  Listing(pushedFrom(xml, 1, "[^>]*", includeEmpty),
          sortElements(pushedFrom(xml, 1, "[^>]*", includeEmpty)))

\* /<node[^>]*clickable="true"[^>]*>/ at position p, whose tag ends at the
\* first > at close
NodeTagClosed(s, p, close) ==
  IF /\ StartsWith(s, p, NodeTag)
     /\ close <= Len(s)
     /\ \E q \in (p + Len(NodeTag))..close : StartsWith(s, q, ClickableTrue)
          /\ q + Len(ClickableTrue) <= close
    THEN [ok |-> TRUE, node |-> SubSeq(s, p, close), end |-> close + 1]
    ELSE [ok |-> FALSE, node |-> <<>>, end |-> p]

NodeTagAt(s, p) == NodeTagClosed(s, p, IndexOfFrom(s, p + Len(NodeTag), ">"))

\* the attempt at the first of the positions starts
FirstNodeTagAt(s, starts) ==
  IF starts = {} THEN NodeTagClosed(s, 0, 0) ELSE NodeTagAt(s, Min(starts))

\* regex.exec(xml) from lastIndex
nodeExec(s, lastIndex) ==
  FirstNodeTagAt(s, {p \in lastIndex..Len(s) : NodeTagAt(s, p).ok})

\* node.match(/text="([^"]*)"/): the first occurrence in the node
FirstGroup(node, starts, nameEq) ==
  IF starts = {} THEN <<>> ELSE AttrGroupAt(node, Min(starts), nameEq).val

nodeText(node) ==
  FirstGroup(node, {p \in 1..Len(node) : AttrGroupAt(node, p, TextEq).ok},
             TextEq)

\* node.match(/bounds="\[(\d+),(\d+)\]\[(\d+),(\d+)\]"/)
nodeBounds(node) ==
  FirstBounds(node, {p \in 1..Len(node) : BoundsAt(node, p).ok})

\* if (!includeDisabled && node.includes('enabled="false"')) continue;
\* if (boundsMatch) elements.push({ text: textMatch ? textMatch[1] : "", ... })
PushedNode(node, includeDisabled, b) ==
  IF ~includeDisabled /\ includes(node, EnabledFalse) THEN <<>>
  ELSE IF b.ok THEN <<ElementAt(nodeText(node), Center(MatchRect(b)))>>
  ELSE <<>>

RECURSIVE clickableFrom(_, _, _)

\* the body of while ((nodeMatch = regex.exec(xml)) !== null)
ClickableAfter(xml, includeDisabled, m) ==
  IF m.ok
    THEN PushedNode(m.node, includeDisabled, nodeBounds(m.node))
           \o clickableFrom(xml, m.end, includeDisabled)
    ELSE <<>>

clickableFrom(xml, lastIndex, includeDisabled) ==
  ClickableAfter(xml, includeDisabled, nodeExec(xml, lastIndex))

\* get_clickable_elements: the clickable nodes, then elements.sort(...)
getClickableElements(xml, includeDisabled) ==
  Listing(clickableFrom(xml, 1, includeDisabled),
          sortElements(clickableFrom(xml, 1, includeDisabled)))

\* the arguments of an enumerating request: flag is includeEmpty or
\* includeDisabled, which get_ui_tree does not have
EnumArgSets ==
  [tool : {"get_ui_tree"}, flag : {FALSE}]
    \cup [tool : {"get_all_text", "get_clickable_elements"}, flag : BOOLEAN]

\* what the handler of an enumerating tool computes from the dump
EnumResult(a, xml) ==
  CASE a.tool = "get_ui_tree" -> getUiTree(xml)
    [] a.tool = "get_all_text" -> getAllText(xml, a.flag)
    [] a.tool = "get_clickable_elements" -> getClickableElements(xml, a.flag)

(***************************************************************************)
(* tap_safe                                                                *)
(***************************************************************************)
\* const statusBarHeight = 50
statusBarHeight == 50
\* const navBarHeight = 120
navBarHeight == 120
\* the 10 of statusBarHeight + 10, navBarHeight - 10, Math.max(10, ...) and
\* screenWidth - 10
SafeMargin == 10

mathMin(a, b) == IF a <= b THEN a ELSE b
mathMax(a, b) == IF a >= b THEN a ELSE b

\* let safeY = y; if (avoidStatusBar && y < statusBarHeight)
\*   safeY = statusBarHeight + 10
AfterStatusBar(c) ==
  IF c.avoidStatusBar /\ c.y < statusBarHeight
    THEN statusBarHeight + SafeMargin
    ELSE c.y

\* if (avoidNavBar && y > screenHeight - navBarHeight)
\*   safeY = screenHeight - navBarHeight - 10
AfterNavBar(c, screenHeight, safeY) ==
  IF c.avoidNavBar /\ c.y > screenHeight - navBarHeight
    THEN screenHeight - navBarHeight - SafeMargin
    ELSE safeY

\* let safeX = Math.max(10, Math.min(x, screenWidth - 10))
SafeXOf(c, screenWidth) ==
  mathMax(SafeMargin, mathMin(c.x, screenWidth - SafeMargin))

\* const screenWidth = sizeMatch ? parseInt(sizeMatch[1]) : 1080, const
\* screenHeight = sizeMatch ? parseInt(sizeMatch[2]) : 2400, and the point
\* that is tapped
WithSafePoint(c, sizeOutput) ==
  LET screenWidth == IF sizeOutput # <<>> THEN sizeOutput[1] ELSE 1080
      screenHeight == IF sizeOutput # <<>> THEN sizeOutput[2] ELSE 2400
  IN [c EXCEPT !.screenWidth = screenWidth, !.screenHeight = screenHeight,
               !.safeX = SafeXOf(c, screenWidth),
               !.safeY = AfterNavBar(c, screenHeight, AfterStatusBar(c))]

\* the points a request asks to tap
TapXs == {0, 10, 400, 2000}
TapYs == {10, 49, 50, 55, 1160, 1161, 3000}

\* what wm size prints for tap_safe: a phone, nothing the handler can
\* parse, a small display
TapSizeOutputs == {<<720, 1280>>, <<>>, <<240, 175>>}

\* the arguments of a tap_safe request, after the defaults of the signature
TapSafeArgSets ==
  [x : TapXs, y : TapYs, avoidStatusBar : BOOLEAN, avoidNavBar : BOOLEAN]

\* the locals of tap_safe when the request is accepted
NewTapSafe(a) ==
  [tool |-> "tap_safe", pc |-> "Idle", x |-> a.x, y |-> a.y,
   avoidStatusBar |-> a.avoidStatusBar, avoidNavBar |-> a.avoidNavBar,
   screenWidth |-> 0, screenHeight |-> 0, safeX |-> 0, safeY |-> 0]

(***************************************************************************)
(* set_clipboard, get_clipboard                                            *)
(***************************************************************************)
\* const paths = ["/data/local/tmp/clipboard_temp.txt",
\*                "/sdcard/clipboard_temp.txt"]
paths == <<"/data/local/tmp/clipboard_temp.txt", "/sdcard/clipboard_temp.txt">>

\* the texts a request asks to copy
ClipTexts == {<<"a">>, <<"a", "b">>, <<" ", "a">>}

\* Buffer.from(text): the UTF-8 bytes of a text of ASCII characters
BufferFrom(text) == [k \in 1..Len(text) |-> Code[text[k]]]

\* the character of a byte
CharOf(byte) == CHOOSE ch \in DOMAIN Code : Code[ch] = byte

\* the text cat prints for the bytes of a file
Printed(bytes) == [k \in 1..Len(bytes) |-> CharOf(bytes[k])]

\* the padding = of base64, next to the digits 0..63
Pad == 64

\* toString("base64"): the digits of the encoding, three bytes to four
RECURSIVE toBase64(_)
toBase64(b) ==
  IF b = <<>> THEN <<>>
  ELSE IF Len(b) = 1 THEN <<b[1] \div 4, (b[1] % 4) * 16, Pad, Pad>>
  ELSE IF Len(b) = 2
    THEN <<b[1] \div 4, (b[1] % 4) * 16 + b[2] \div 16, (b[2] % 16) * 4, Pad>>
  ELSE <<b[1] \div 4, (b[1] % 4) * 16 + b[2] \div 16,
         (b[2] % 16) * 4 + b[3] \div 64, b[3] % 64>>
         \o toBase64(SubSeq(b, 4, Len(b)))

\* base64 -d on the device: four digits to three bytes
RECURSIVE base64Decode(_)
base64Decode(e) ==
  IF Len(e) < 4 THEN <<>>
  ELSE (IF e[3] = Pad THEN <<e[1] * 4 + e[2] \div 16>>
        ELSE IF e[4] = Pad
          THEN <<e[1] * 4 + e[2] \div 16, (e[2] % 16) * 16 + e[3] \div 4>>
        ELSE <<e[1] * 4 + e[2] \div 16, (e[2] % 16) * 16 + e[3] \div 4,
               (e[3] % 4) * 64 + e[4]>>)
         \o base64Decode(SubSeq(e, 5, Len(e)))

\* the characters String.prototype.trim removes, among those of the texts
WhiteSpace == {" ", "\n"}

\* String.prototype.trim
RECURSIVE trim(_)
trim(s) ==
  IF s = <<>> THEN <<>>
  ELSE IF Head(s) \in WhiteSpace THEN trim(Tail(s))
  ELSE IF s[Len(s)] \in WhiteSpace THEN trim(SubSeq(s, 1, Len(s) - 1))
  ELSE s

\* what shell(`cat <path>`) returns for the bytes of the file: adb trims
\* the output
CatOutput(bytes) == trim(Printed(bytes))

\* the bytes echo "<base64Text>" | base64 -d > <path> writes for text
WrittenFor(text) == base64Decode(toBase64(BufferFrom(text)))

ClipTools == {"set_clipboard", "get_clipboard"}

\* the arguments of a clipboard request
ClipArgSets ==
  [tool : {"set_clipboard"}, text : ClipTexts]
    \cup [tool : {"get_clipboard"}, text : {<<>>}]

\* the locals of a clipboard handler when the request is accepted: i is the
\* position of clipPath in paths
NewClip(a) ==
  [tool |-> a.tool, pc |-> "Idle", text |-> a.text, i |-> 1,
   success |-> FALSE, content |-> <<>>]

(***************************************************************************)
(* The server: requests, the handlers' locals, the device                  *)
(***************************************************************************)
\* the tool calls a client sends
Requests == {1, 2}

WaitTools == {"wait_for_element", "wait_for_element_gone", "wait_for_ui_stable"}
Tools == WaitTools \cup {"scroll_to_text"}

\* await new Promise((resolve) => setTimeout(resolve, 500)), in units of 500 ms
PollInterval == 1
\* stableCount >= 2
StableThreshold == 2
\* width and height when wm size prints no <digits>x<digits>
DefaultWidth == 1080
DefaultHeight == 2400
\* the duration argument of input swipe
SwipeMs == 300

\* the timeouts and intervals a request can carry, in units of 500 ms
Timeouts == {0, 2, MaxTimeout}
CheckIntervals == {1, 2}
ScrollArgs == 0..MaxScrollArg
\* what wm size prints: a size, or nothing the handler can parse
WmSizeOutputs == {<<720, 1280>>, <<>>}

\* the arguments of a request, after the defaults of the handler's signature
ArgSets ==
  [tool : {"wait_for_element"}, text : DOMAIN Texts,
   timeout : {t \div 2 : t \in Timeouts}, checkInterval : {0},
   direction : {"none"}, maxScrolls : {0}]
  \cup
  [tool : {"wait_for_element_gone"}, text : DOMAIN Texts,
   timeout : Timeouts, checkInterval : {0},
   direction : {"none"}, maxScrolls : {0}]
  \cup
  [tool : {"wait_for_ui_stable"}, text : {0},
   timeout : Timeouts, checkInterval : CheckIntervals,
   direction : {"none"}, maxScrolls : {0}]
  \cup
  [tool : {"scroll_to_text"}, text : DOMAIN Texts,
   timeout : {0}, checkInterval : {0},
   direction : {"up", "down"}, maxScrolls : ScrollArgs]

\* the arguments of the requests a client sends while another is in progress
ConcArgSets ==
  {a \in ArgSets :
     /\ a.text \in {0, 1}
     /\ a.timeout = (IF a.tool = "wait_for_element" THEN 1
                     ELSE IF a.tool = "scroll_to_text" THEN 0 ELSE 2)
     /\ a.checkInterval \in {0, 1}
     /\ a.direction \in {"none", "down"}
     /\ a.maxScrolls \in {0, 1}}

Commands ==
  {"wm size", "uiautomator dump", "cat", "input swipe", "input tap",
   "base64 -d"}
\* how a call ends: the outcomes of the synchronization tools, the result a
\* locating tool returns, and a thrown error
Terminal == {"Success", "Timeout", "Exhausted", "Returned", "Error"}

VARIABLES
  now,      \* Date.now(), in units of 500 ms
  screen,   \* the screen the device shows
  dumpFile, \* /sdcard/ui_dump.xml: the screen it was dumped from, 0 = absent;
            \* for the clipboard tools, the bytes of the files of paths
  pending,  \* the requests the client has not sent yet
  call,     \* per request: the handler's arguments, locals and await point
  hist      \* per request: what the handler has done so far (history)

vars == <<now, screen, dumpFile, pending, call, hist>>

\* a request that has not been accepted
IdleCall ==
  [tool |-> "none", pc |-> "Idle", text |-> 0, timeoutMs |-> 0,
   checkInterval |-> 0, direction |-> "none", maxScrolls |-> 0,
   startTime |-> 0, xml |-> 0, lastFingerprint |-> <<>>, stableCount |-> 0,
   i |-> 0, centerX |-> 0, startY |-> 0, endY |-> 0, wake |-> 0]

\* cmds: the remote commands issued; obs: the screen whose dump each tick
\* evaluated; failures: the remote commands that failed
NoHist == [cmds |-> <<>>, obs |-> <<>>, failures |-> 0]

\* the order in which a tick awaits its two snapshot commands
SnapshotCmdsSwapped == <<"cat", "uiautomator dump">>

SnapshotCmds == <<"uiautomator dump", "cat">>

\* the arguments of a command as the handler writes them
CmdArgs(c, cmd) ==
  IF cmd = "input swipe"
    THEN <<c.centerX, c.startY, c.centerX, c.endY, SwipeMs>>
  ELSE IF cmd = "input tap"
    THEN (IF c.tool = "tap_safe" THEN <<c.safeX, c.safeY>>
          ELSE Center(c.result.rect))
  ELSE <<>>

\* await shell(cmd): the command is issued and the handler waits for it
Issue(c, h, cmd) ==
  [c |-> [c EXCEPT !.pc = cmd],
   h |-> [h EXCEPT !.cmds = Append(@, [cmd |-> cmd, args |-> CmdArgs(c, cmd)])]]

\* the handler returns, or suspends in a sleep
Goto(c, h, pc) == [c |-> [c EXCEPT !.pc = pc], h |-> h]

\* await new Promise((resolve) => setTimeout(resolve, ms))
Sleep(c, h, interval) ==
  [c |-> [c EXCEPT !.pc = "sleep", !.wake = now + interval], h |-> h]

\* while (Date.now() - startTime < timeout) with <= in place of <
LoopGuardInclusive(c) == now - c.startTime <= c.timeoutMs

\* while (Date.now() - startTime < timeout)
LoopGuard(c) == now - c.startTime < c.timeoutMs

\* for (...; i < maxScrolls; ...) with <= in place of <
ScrollGuardInclusive(c) == c.i <= c.maxScrolls

\* for (...; i < maxScrolls; ...)
ScrollGuard(c) == c.i < c.maxScrolls

\* the polling loop with if in place of while: one tick only
WaitLoopTopOnce(c, h) ==
  IF LoopGuard(c) /\ h.obs = <<>> THEN Issue(c, h, SnapshotCmds[1])
  ELSE Goto(c, h, "Timeout")

\* the top of the polling loop of the three wait tools
WaitLoopTop(c, h) ==
  IF LoopGuard(c) THEN Issue(c, h, SnapshotCmds[1]) ELSE Goto(c, h, "Timeout")

\* the for loop of scroll_to_text swiping before it looks
ScrollLoopTopSwipeFirst(c, h) ==
  IF ScrollGuard(c) THEN Issue(c, h, "input swipe")
  ELSE Goto(c, h, "Exhausted")

\* the top of the for loop of scroll_to_text
ScrollLoopTop(c, h) ==
  IF ScrollGuard(c) THEN Issue(c, h, SnapshotCmds[1])
  ELSE Goto(c, h, "Exhausted")

\* the branch on the fingerprints, with the reset of stableCount left out
StableStepNoReset(c, currentFingerprint) ==
  IF currentFingerprint = c.lastFingerprint
    THEN [stableCount |-> c.stableCount + 1,
          lastFingerprint |-> c.lastFingerprint,
          stable |-> c.stableCount + 1 >= StableThreshold]
    ELSE [stableCount |-> c.stableCount,
          lastFingerprint |-> currentFingerprint, stable |-> FALSE]

\* the branch on the fingerprints, returning on the first equal pair
StableStepOnce(c, currentFingerprint) ==
  IF currentFingerprint = c.lastFingerprint
    THEN [stableCount |-> c.stableCount + 1,
          lastFingerprint |-> c.lastFingerprint,
          stable |-> c.stableCount + 1 >= 1]
    ELSE [stableCount |-> 0, lastFingerprint |-> currentFingerprint,
          stable |-> FALSE]

\* if (currentFingerprint === lastFingerprint) { stableCount++; if
\* (stableCount >= 2) return } else { stableCount = 0; lastFingerprint = ... }
StableStep(c, currentFingerprint) ==
  IF currentFingerprint = c.lastFingerprint
    THEN [stableCount |-> c.stableCount + 1,
          lastFingerprint |-> c.lastFingerprint,
          stable |-> c.stableCount + 1 >= StableThreshold]
    ELSE [stableCount |-> 0, lastFingerprint |-> currentFingerprint,
          stable |-> FALSE]

\* the containment check without toLowerCase
FoundCaseSensitive(c) == includesRaw(Dumps[c.xml], Texts[c.text])

\* xml.toLowerCase().includes(text.toLowerCase()): the whole dump is searched
Found(c) == includesCI(Dumps[c.xml], Texts[c.text])

\* the condition of wait_for_element_gone without its negation
GoneNotNegated(c) == Found(c)

\* if (!xml.toLowerCase().includes(text.toLowerCase()))
Gone(c) == ~Found(c)

\* scroll_to_text after a dump without the text: swipe, then sleep
ScrollMiss(c, h) == Issue(c, h, "input swipe")

\* what a handler does with the dump of one tick, after xml is assigned
Evaluate(c, h0) ==
  LET h == [h0 EXCEPT !.obs = Append(@, c.xml)]
      st == StableStep(c, FingerprintOf[c.xml])
      cs == [c EXCEPT !.stableCount = st.stableCount,
                      !.lastFingerprint = st.lastFingerprint]
  IN CASE c.tool = "wait_for_element" ->
            IF Found(c) THEN Goto(c, h, "Success")
            ELSE Sleep(c, h, PollInterval)
       [] c.tool = "wait_for_element_gone" ->
            IF Gone(c) THEN Goto(c, h, "Success")
            ELSE Sleep(c, h, PollInterval)
       [] c.tool = "scroll_to_text" ->
            IF Found(c) THEN Goto(c, h, "Success") ELSE ScrollMiss(c, h)
       [] c.tool = "wait_for_ui_stable" ->
            IF st.stable THEN Goto(cs, h, "Success")
            ELSE Sleep(cs, h, c.checkInterval)

\* const sizeMatch = sizeOutput.match(/(\d+)x(\d+)/) and the swipe geometry
WithGeometry(c, sizeOutput) ==
  LET width == IF sizeOutput # <<>> THEN sizeOutput[1] ELSE DefaultWidth
      height == IF sizeOutput # <<>> THEN sizeOutput[2] ELSE DefaultHeight
  IN [c EXCEPT !.centerX = RoundHalf(width),
               !.startY = IF c.direction = "down" THEN RoundTenths(height, 7)
                          ELSE RoundTenths(height, 3),
               !.endY = IF c.direction = "down" THEN RoundTenths(height, 3)
                        ELSE RoundTenths(height, 7),
               !.i = 0]

\* the handler's locals when the request is accepted
NewCall(a) ==
  [IdleCall EXCEPT !.tool = a.tool, !.text = a.text,
                   !.timeoutMs = IF a.tool = "wait_for_element"
                                   THEN a.timeout * 2 ELSE a.timeout,
                   !.checkInterval = a.checkInterval,
                   !.direction = a.direction, !.maxScrolls = a.maxScrolls,
                   !.startTime = IF a.tool \in WaitTools THEN now ELSE 0]

\* adb's catch block, retrying the command instead of throwing
OnShellErrorRetry(cmd) == cmd

\* adb: catch (error) { throw new Error(...) }, and no handler catches it
OnShellError(cmd) == "Error"

\* the handlers' xml declared once for the module and not per call
InstallSharedXml(r, n) ==
  /\ call' = [q \in Requests |->
               IF q = r THEN n.c ELSE [call[q] EXCEPT !.xml = n.c.xml]]
  /\ hist' = [hist EXCEPT ![r] = n.h]

\* the locals of a callback belong to its invocation (const, let)
Install(r, n) ==
  /\ call' = [call EXCEPT ![r] = n.c]
  /\ hist' = [hist EXCEPT ![r] = n.h]

\* the server invokes the tool's callback, which runs to its first await;
\* the client sends its requests in the order of their numbers
Accept(r, argSets) ==
  /\ r \in pending
  /\ \A q \in pending : r <= q
  /\ pending' = pending \ {r}
  /\ \E a \in argSets :
       LET c == NewCall(a)
       IN Install(r, IF a.tool = "scroll_to_text"
                       THEN Issue(c, hist[r], "wm size")
                       ELSE WaitLoopTop(c, hist[r]))
  /\ UNCHANGED <<now, screen, dumpFile>>

\* a remote command succeeds and the handler runs to its next await
ShellDone(r) ==
  LET c == call[r]
      h == hist[r]
  IN /\ c.pc \in Commands
     /\ CASE c.pc = "wm size" ->
               /\ \E out \in WmSizeOutputs :
                    Install(r, ScrollLoopTop(WithGeometry(c, out), h))
               /\ UNCHANGED dumpFile
          [] c.pc = "input swipe" ->
               /\ Install(r, Sleep(c, h, PollInterval))
               /\ UNCHANGED dumpFile
          [] c.pc = "uiautomator dump" ->
               /\ dumpFile' = screen
               /\ Install(r, IF c.pc = SnapshotCmds[1]
                               THEN Issue(c, h, SnapshotCmds[2])
                               ELSE Evaluate(c, h))
          [] c.pc = "cat" ->
               /\ dumpFile # 0
               /\ UNCHANGED dumpFile
               /\ LET cx == [c EXCEPT !.xml = dumpFile]
                  IN Install(r, IF c.pc = SnapshotCmds[1]
                                  THEN Issue(cx, h, SnapshotCmds[2])
                                  ELSE Evaluate(cx, h))
     /\ UNCHANGED <<now, screen, pending>>

\* a remote command fails: execAsync rejects and adb throws
ShellFail(r) ==
  LET c == call[r]
      h == [hist[r] EXCEPT !.failures = @ + 1]
  IN /\ c.pc \in Commands
     /\ Install(r, IF OnShellError(c.pc) \in Commands
                     THEN Issue(c, h, OnShellError(c.pc))
                     ELSE Goto(c, h, OnShellError(c.pc)))
     /\ UNCHANGED <<now, screen, dumpFile, pending>>

\* the timer of a sleep fires and the loop goes round
SleepDone(r) ==
  LET c == call[r]
      h == hist[r]
  IN /\ c.pc = "sleep"
     /\ now >= c.wake
     /\ Install(r, IF c.tool = "scroll_to_text"
                     THEN ScrollLoopTop([c EXCEPT !.i = @ + 1], h)
                     ELSE WaitLoopTop(c, h))
     /\ UNCHANGED <<now, screen, dumpFile, pending>>

\* time passes
Tick ==
  /\ now < MaxTime
  /\ now' = now + 1
  /\ UNCHANGED <<screen, dumpFile, pending, call, hist>>

\* the device shows another screen
ScreenChange ==
  /\ \E s \in Screens \ {screen} : screen' = s
  /\ UNCHANGED <<now, dumpFile, pending, call, hist>>

\* how long the clock runs after the second client starts, in units of 500 ms
ConcSpan == 3

Init ==
  /\ now = 0
  /\ screen \in Screens
  /\ dumpFile \in {0} \cup Screens
  /\ pending = {1}
  /\ call = [r \in Requests |-> IdleCall]
  /\ hist = [r \in Requests |-> NoHist]

InitConc ==
  /\ now = MaxTime - ConcSpan
  /\ screen \in Screens
  /\ dumpFile = 0
  /\ pending = Requests
  /\ call = [r \in Requests |-> IdleCall]
  /\ hist = [r \in Requests |-> NoHist]

Next ==
  \/ \E r \in Requests : Accept(r, ArgSets)
  \/ \E r \in Requests : ShellDone(r)
  \/ \E r \in Requests : ShellFail(r)
  \/ \E r \in Requests : SleepDone(r)
  \/ Tick
  \/ ScreenChange

NextConc ==
  \/ \E r \in Requests : Accept(r, ConcArgSets)
  \/ \E r \in Requests : ShellDone(r)
  \/ \E r \in Requests : ShellFail(r)
  \/ \E r \in Requests : SleepDone(r)
  \/ Tick
  \/ ScreenChange

\* a client that sends one request
Spec == Init /\ [][Next]_vars

\* a client that sends a second request without waiting for the first
SpecConc == InitConc /\ [][NextConc]_vars

\* the locals of a locating handler when the request is accepted
NewLocate(a) ==
  [tool |-> a.tool, pc |-> "Idle", text |-> QueryTexts[a.text],
   resourceId |-> QueryIds[a.resourceId], index |-> a.index,
   exact |-> a.exact,
   xml |-> 0, result |-> Undef]

\* if (!text && !resourceId) return ..., in the tools where both are optional
MustProvide(c) ==
  c.tool \in LocateTools /\ ~Truthy(c.text) /\ ~Truthy(c.resourceId)

\* a locating handler up to its first await
LocateStart(c, h) ==
  IF MustProvide(c)
    THEN Goto([c EXCEPT !.result = LocateResult("invalid", 0, Undef)], h,
              "Returned")
    ELSE Issue(c, h, SnapshotCmds[1])

\* a locating handler that returns what it located without tapping it
LocateStepNoTap(c, h) ==
  IF c.result.kind \in {"SyntaxError", "TypeError"} THEN Goto(c, h, "Error")
  ELSE Goto(c, h, "Returned")

\* a locating handler from the dump it has read to its next await or its end
LocateStep(c, h) ==
  IF c.result.kind \in {"SyntaxError", "TypeError"} THEN Goto(c, h, "Error")
  ELSE IF c.tool \in TapTools /\ c.result.kind = "found"
    THEN Issue(c, h, "input tap")
  ELSE Goto(c, h, "Returned")

\* the server invokes the callback of a locating tool
AcceptLocate(r) ==
  /\ r \in pending
  /\ pending' = pending \ {r}
  /\ \E a \in LocateArgSets : Install(r, LocateStart(NewLocate(a), hist[r]))
  /\ UNCHANGED <<now, screen, dumpFile>>

\* a remote command of a locating handler succeeds
LocateShellDone(r) ==
  LET c == call[r]
      h == hist[r]
  IN /\ c.pc \in Commands
     /\ CASE c.pc = "uiautomator dump" ->
               /\ dumpFile' = screen
               /\ Install(r, Issue(c, h, SnapshotCmds[2]))
          [] c.pc = "cat" ->
               /\ dumpFile # 0
               /\ UNCHANGED dumpFile
               /\ Install(r, LocateStep(
                    [c EXCEPT !.xml = dumpFile,
                              !.result = ToolResult(c.tool,
                                                    LayoutDumps[dumpFile], c)],
                    [h EXCEPT !.obs = Append(@, dumpFile)]))
          [] c.pc = "input tap" ->
               /\ UNCHANGED dumpFile
               /\ Install(r, Goto(c, h, "Returned"))
     /\ UNCHANGED <<now, screen, pending>>

\* the device shows another layout
LayoutChange ==
  /\ \E l \in DOMAIN Layouts \ {screen} : screen' = l
  /\ UNCHANGED <<now, dumpFile, pending, call, hist>>

InitLocate ==
  /\ now = 0
  /\ screen \in DOMAIN Layouts
  /\ dumpFile = 0
  /\ pending = {1}
  /\ call = [r \in Requests |-> IdleCall]
  /\ hist = [r \in Requests |-> NoHist]

NextLocate ==
  \/ \E r \in Requests : AcceptLocate(r)
  \/ \E r \in Requests : LocateShellDone(r)
  \/ \E r \in Requests : ShellFail(r)
  \/ LayoutChange

\* a client that sends one request to a locating tool
SpecLocate == InitLocate /\ [][NextLocate]_vars

\* ------------------------------------------------------------------------
\* the screens whose Fingerprints wait_for_ui_stable compares
\* ------------------------------------------------------------------------
\* the elements a screen is made of: a text, a class, bounds
FpElements ==
  [text : {<<>>, <<"O", "k">>, <<"G", "o">>}, class : {<<>>, <<"V">>},
   b : {<<"0", "0", "1", "1">>, <<"0", "0", "2", "2">>}]

\* a screen: one or two elements in document order, dumped as <node .../>
\* tags or, loose, as text="..." bounds="..." pairs without delimiters
FpScreens ==
  [nodes : {<<e>> : e \in FpElements}
             \cup {<<e1, e2>> : e1 \in FpElements, e2 \in FpElements},
   loose : BOOLEAN]

\* the dump of one element of a screen
ElementDump(e, loose) ==
  IF loose THEN LooseDump(e.text, e.b[1], e.b[2], e.b[3], e.b[4])
  ELSE NodeDump(e.text, e.class, e.b[1], e.b[2], e.b[3], e.b[4])

\* the dump uiautomator writes for a screen
ScreenDump(sc) ==
  IF Len(sc.nodes) = 1 THEN ElementDump(sc.nodes[1], sc.loose)
  ELSE ElementDump(sc.nodes[1], sc.loose)
         \o (IF sc.loose THEN <<" ">> ELSE <<>>)
         \o ElementDump(sc.nodes[2], sc.loose)

DigitChars == <<"0", "1", "2", "3", "4", "5", "6", "7", "8", "9">>

\* the coordinate one unit above the coordinate ch
NextCoord(ch) == DigitChars[parseInt(<<ch>>) + 2]

\* one tick of wait_for_ui_stable up to its Fingerprint: the dump of the
\* screen is written, read and normalized
FpSnapshot ==
  /\ Len(hist[1].obs) < 2
  /\ dumpFile' = ScreenDump(screen)
  /\ hist' = [hist EXCEPT ![1].obs =
                Append(@, [screen |-> screen,
                           fingerprint |->
                             extractUIFingerprint(ScreenDump(screen))])]
  /\ UNCHANGED <<now, screen, pending, call>>

\* between two ticks one bounds component of one element grows by one unit
FpResize ==
  /\ Len(hist[1].obs) = 1
  /\ screen = hist[1].obs[1].screen
  /\ \E k \in DOMAIN screen.nodes : \E i \in 1..4 :
       /\ parseInt(<<screen.nodes[k].b[i]>>) < MaxCoord
       /\ screen' = [screen EXCEPT !.nodes[k].b[i] = NextCoord(@)]
  /\ UNCHANGED <<now, dumpFile, pending, call, hist>>

\* between two ticks the elements change places in the dump
FpReorder ==
  /\ Len(hist[1].obs) = 1
  /\ screen = hist[1].obs[1].screen
  /\ Len(screen.nodes) = 2
  /\ screen' = [screen EXCEPT !.nodes = <<@[2], @[1]>>]
  /\ UNCHANGED <<now, dumpFile, pending, call, hist>>

InitFp ==
  /\ now = 0
  /\ screen \in FpScreens
  /\ dumpFile = 0
  /\ pending = {}
  /\ call = [r \in Requests |-> IdleCall]
  /\ hist = [r \in Requests |-> NoHist]

NextFp == FpSnapshot \/ FpResize \/ FpReorder

\* two consecutive Fingerprints of a screen that changes in between
SpecFp == InitFp /\ [][NextFp]_vars

\* the requests of the runs in which every remote command returns: a
\* wait_for_element with a timeout of 1 second
LiveArgSets == {a \in ArgSets : a.tool = "wait_for_element" /\ a.timeout = 1}

\* the server starts before any dump was written to the device
InitLive == Init /\ dumpFile = 0

\* time passes, and goes on passing while a timer of setTimeout is pending
TickLive ==
  /\ \/ now < MaxTime
     \/ \E r \in Requests : call[r].pc = "sleep" /\ now < call[r].wake
  /\ now' = now + 1
  /\ UNCHANGED <<screen, dumpFile, pending, call, hist>>

\* the steps of a run in which no remote command fails
NextLive ==
  \/ \E r \in Requests : Accept(r, LiveArgSets)
  \/ \E r \in Requests : ShellDone(r)
  \/ \E r \in Requests : SleepDone(r)
  \/ TickLive
  \/ ScreenChange

\* ------------------------------------------------------------------------
\* get_element_bounds called on a screen with one element
\* ------------------------------------------------------------------------
\* the abscissas and ordinates of the element's corners
CornerXs == {0, 3, 100, 300}
CornerYs == {0, 5, 200, 250}

\* the decimal digits of n >= 0, as the device writes a coordinate
RECURSIVE Decimal(_)
Decimal(n) ==
  IF n < 10 THEN <<DigitChars[n + 1]>>
  ELSE Decimal(n \div 10) \o <<DigitChars[(n % 10) + 1]>>

SubmitText == <<"S", "u", "b", "m", "i", "t">>

\* the dump of the screen: text="Submit" bounds="[x1,y1][x2,y2]"
SubmitDump(b) ==
  TextEq \o SubmitText \o Quote \o <<" ">>
    \o BoundsText(<<Decimal(b.x1), Decimal(b.y1), Decimal(b.x2),
                    Decimal(b.y2)>>)

\* the text queries of the requests: the text, in another case, and a part
BoundsQueries ==
  {SubmitText, <<"s", "u", "b", "m", "i", "t">>, <<"u", "b", "m", "i">>}

\* the handler of get_element_bounds with every remote command returning:
\* the dump of the screen is written, read and searched, and the bounds and
\* the center of the match are reported
GetElementBounds ==
  /\ hist[1].obs = <<>>
  /\ \E text \in BoundsQueries :
       hist' = [hist EXCEPT ![1].obs =
                  <<[text |-> text, screen |-> screen,
                     result |->
                       boundsReport(
                         getElementBoundsLocate(
                           SubmitDump(screen),
                           [text |-> text, resourceId |-> Undef,
                            index |-> 0]),
                         0)]>>]
  /\ dumpFile' = SubmitDump(screen)
  /\ UNCHANGED <<now, screen, pending, call>>

InitBounds ==
  /\ now = 0
  /\ screen \in [x1 : CornerXs, y1 : CornerYs, x2 : CornerXs, y2 : CornerYs]
  /\ dumpFile = 0
  /\ pending = {}
  /\ call = [r \in Requests |-> IdleCall]
  /\ hist = [r \in Requests |-> NoHist]

NextBounds == GetElementBounds

\* a client that asks for the bounds of the element of one screen
SpecBounds == InitBounds /\ [][NextBounds]_vars

\* ------------------------------------------------------------------------
\* tap_safe
\* ------------------------------------------------------------------------
\* the server invokes the callback of tap_safe, which asks for the size
AcceptTapSafe(r) ==
  /\ r \in pending
  /\ pending' = pending \ {r}
  /\ \E a \in TapSafeArgSets :
       Install(r, Issue(NewTapSafe(a), hist[r], "wm size"))
  /\ UNCHANGED <<now, screen, dumpFile>>

\* a remote command of tap_safe succeeds
TapSafeShellDone(r) ==
  LET c == call[r]
      h == hist[r]
  IN /\ c.pc \in Commands
     /\ CASE c.pc = "wm size" ->
               \E out \in TapSizeOutputs :
                 Install(r, Issue(WithSafePoint(c, out), h, "input tap"))
          [] c.pc = "input tap" -> Install(r, Goto(c, h, "Returned"))
     /\ UNCHANGED <<now, screen, dumpFile, pending>>

InitTapSafe ==
  /\ now = 0
  /\ screen = 0
  /\ dumpFile = 0
  /\ pending = {1}
  /\ call = [r \in Requests |-> IdleCall]
  /\ hist = [r \in Requests |-> NoHist]

NextTapSafe ==
  \/ \E r \in Requests : AcceptTapSafe(r)
  \/ \E r \in Requests : TapSafeShellDone(r)
  \/ \E r \in Requests : ShellFail(r)

\* a client that sends one tap_safe request
SpecTapSafe == InitTapSafe /\ [][NextTapSafe]_vars

\* ------------------------------------------------------------------------
\* set_clipboard, get_clipboard
\* ------------------------------------------------------------------------
\* the first remote command of the body of for (const clipPath of paths)
ClipFirstCmd(c) == IF c.tool = "set_clipboard" THEN "base64 -d" ELSE "cat"

\* the loop goes on to the next path, or ends: set_clipboard returns its
\* error, get_clipboard the empty content
ClipNextPath(c) ==
  IF c.i < Len(paths) THEN [c EXCEPT !.i = @ + 1, !.pc = ClipFirstCmd(c)]
  ELSE [c EXCEPT !.pc = "Returned"]

\* if (verify && verify.length > 0) { success = true; break; }
AfterVerify(c, verify) ==
  IF verify # <<>> THEN [c EXCEPT !.success = TRUE, !.pc = "Returned"]
  ELSE ClipNextPath(c)

\* if (content && content.trim()) return `Clipboard content: "${content}"`
AfterRead(c, content) ==
  IF content # <<>> /\ trim(content) # <<>>
    THEN [c EXCEPT !.content = content, !.pc = "Returned"]
    ELSE ClipNextPath(c)

\* the handler goes on to its next await, or returns and the call is over
ClipInstall(r, c) ==
  /\ call' = [call EXCEPT ![r] = c]
  /\ hist' = IF c.pc = "Returned"
               THEN [hist EXCEPT ![r].obs =
                       Append(@, [tool |-> c.tool, text |-> c.text,
                                  success |-> c.success,
                                  content |-> c.content])]
               ELSE hist

\* the client sends its next clipboard call when the last one has returned
AcceptClip(r) ==
  /\ r \in pending
  /\ call[r].pc \in {"Idle", "Returned"}
  /\ pending' = IF Len(hist[r].obs) + 1 < MaxCalls THEN pending
                ELSE pending \ {r}
  /\ \E a \in ClipArgSets :
       ClipInstall(r, [NewClip(a) EXCEPT !.pc = ClipFirstCmd(NewClip(a))])
  /\ UNCHANGED <<now, screen, dumpFile>>

\* a remote command of a clipboard handler succeeds
ClipShellDone(r) ==
  LET c == call[r]
  IN /\ c.tool \in ClipTools
     /\ CASE c.pc = "base64 -d" ->
               /\ dumpFile' = [dumpFile EXCEPT ![c.i] = WrittenFor(c.text)]
               /\ ClipInstall(r, [c EXCEPT !.pc = "cat"])
          [] c.pc = "cat" ->
               /\ UNCHANGED dumpFile
               /\ ClipInstall(r, IF c.tool = "set_clipboard"
                                   THEN AfterVerify(c, CatOutput(dumpFile[c.i]))
                                   ELSE AfterRead(c, CatOutput(dumpFile[c.i])))
          [] OTHER -> FALSE
     /\ UNCHANGED <<now, screen, pending>>

\* a remote command of a clipboard handler fails and adb throws: catch { }
\* and the loop tries the next path; a write that fails has not run, or has
\* failed after the redirection emptied the file
ClipShellFail(r) ==
  LET c == call[r]
  IN /\ c.tool \in ClipTools
     /\ c.pc \in Commands
     /\ \/ UNCHANGED dumpFile
        \/ c.pc = "base64 -d" /\ dumpFile' = [dumpFile EXCEPT ![c.i] = <<>>]
     /\ ClipInstall(r, ClipNextPath(c))
     /\ UNCHANGED <<now, screen, pending>>

InitClip ==
  /\ now = 0
  /\ screen = 0
  /\ dumpFile = [i \in DOMAIN paths |-> <<>>]
  /\ pending = {1}
  /\ call = [r \in Requests |-> IdleCall]
  /\ hist = [r \in Requests |-> NoHist]

NextClip ==
  \/ \E r \in Requests : AcceptClip(r)
  \/ \E r \in Requests : ClipShellDone(r)
  \/ \E r \in Requests : ClipShellFail(r)

\* a client that makes clipboard calls one after another
SpecClip == InitClip /\ [][NextClip]_vars

\* every remote command returns, every timer fires and the clock advances
SpecLive ==
  /\ InitLive
  /\ [][NextLive]_vars
  /\ WF_vars(TickLive)
  /\ \A r \in Requests : WF_vars(ShellDone(r)) /\ WF_vars(SleepDone(r))

\* ------------------------------------------------------------------------
\* the enumerating tools called on one screen
\* ------------------------------------------------------------------------
\* the handler of an enumerating tool: the dump of the screen is written,
\* read and scanned, and the listing is returned
Enumerate(a) ==
  /\ Len(hist[1].obs) < 2
  /\ \A k \in DOMAIN hist[1].obs : hist[1].obs[k].args # a
  /\ dumpFile' = EnumDump(screen)
  /\ hist' = [hist EXCEPT ![1].obs =
                Append(@, [args |-> a, screen |-> screen,
                           result |-> EnumResult(a, EnumDump(screen))])]
  /\ UNCHANGED <<now, screen, pending, call>>

GetUiTree == \E a \in EnumArgSets : a.tool = "get_ui_tree" /\ Enumerate(a)

GetAllText == \E a \in EnumArgSets : a.tool = "get_all_text" /\ Enumerate(a)

GetClickableElements ==
  \E a \in EnumArgSets : a.tool = "get_clickable_elements" /\ Enumerate(a)

InitEnum ==
  /\ now = 0
  /\ screen \in EnumScreens
  /\ dumpFile = 0
  /\ pending = {}
  /\ call = [r \in Requests |-> IdleCall]
  /\ hist = [r \in Requests |-> NoHist]

NextEnum == GetUiTree \/ GetAllText \/ GetClickableElements

\* a client that calls two enumerating tools on one screen
SpecEnum == InitEnum /\ [][NextEnum]_vars

(***************************************************************************)
(* Vocabulary of the properties                                            *)
(***************************************************************************)
InProgress(r) == call[r].pc \notin Terminal \cup {"Idle"}

\* the ticks request r has evaluated
Ticks(r) == Len(hist[r].obs)

\* the Fingerprint observed at each tick
Fps(r) == [k \in 1..Ticks(r) |-> FingerprintOf[hist[r].obs[k]]]

\* the names of the remote commands r has issued, in order
CmdNames(r) == [k \in 1..Len(hist[r].cmds) |-> hist[r].cmds[k].cmd]

\* how many times r has issued cmd
Issued(r, cmd) == Cardinality({k \in 1..Len(hist[r].cmds) : hist[r].cmds[k].cmd = cmd})

Gestures(r) == Issued(r, "input swipe")

\* text occurs in xml when letter case is ignored
ContainsIgnoringCase(xml, text) ==
  \E p \in 1..(Len(xml) - Len(text) + 1) :
    \A k \in 1..Len(text) : LowerChar(xml[p + k - 1]) = LowerChar(text[k])

\* the dump evaluated at tick k of r contains the text r asks for
Hit(r, k) == ContainsIgnoringCase(Dumps[hist[r].obs[k]], Texts[call[r].text])

\* the number of equal elements at the end of a non-empty sequence
RECURSIVE EqualSuffix(_)
EqualSuffix(q) ==
  IF Len(q) <= 1 THEN Len(q)
  ELSE IF q[Len(q)] = q[Len(q) - 1] THEN 1 + EqualSuffix(SubSeq(q, 1, Len(q) - 1))
  ELSE 1

\* ticks 1 and 2 of r show two different non-empty Fingerprints A, B
StartsAB(r) ==
  /\ call[r].tool = "wait_for_ui_stable"
  /\ Ticks(r) >= 2
  /\ Fps(r)[1] # <<>> /\ Fps(r)[2] # <<>> /\ Fps(r)[1] # Fps(r)[2]

(***************************************************************************)
(* C1  wait_for_ui_stable on Fingerprints A, B, B, B                       *)
(***************************************************************************)
\* C1 as stated: when the Fingerprints of ticks 1..3 are A, B, B (A # B, both
\* non-empty), wait_for_ui_stable reports success at the 3rd tick.
C1_SuccessAtThirdTick ==
  \A r \in Requests :
    (StartsAB(r) /\ Ticks(r) >= 3 /\ Fps(r)[3] = Fps(r)[2])
      => (Ticks(r) = 3 /\ call[r].pc = "Success")

\* C1 amended: when the Fingerprints of ticks 1..4 are A, B, B, B (A # B, both
\* non-empty), wait_for_ui_stable has not reported success after the 2nd nor
\* after the 3rd tick, and reports it exactly at the 4th tick.
C1_SuccessAtFourthTick ==
  \A r \in Requests :
    StartsAB(r) =>
      /\ Ticks(r) = 2 => call[r].pc # "Success"
      /\ (Ticks(r) = 3 /\ Fps(r)[3] = Fps(r)[2]) => call[r].pc # "Success"
      /\ (Ticks(r) >= 4 /\ Fps(r)[3] = Fps(r)[2] /\ Fps(r)[4] = Fps(r)[2])
           => (Ticks(r) = 4 /\ call[r].pc = "Success")

C1_Witness ==
  \E r \in Requests :
    /\ StartsAB(r)
    /\ Ticks(r) = 4 /\ Fps(r)[3] = Fps(r)[2] /\ Fps(r)[4] = Fps(r)[2]
    /\ call[r].pc = "Success"

(***************************************************************************)
(* C2  the consecutive-equal counter                                       *)
(***************************************************************************)
\* C2: in wait_for_ui_stable, stableCount is the number of ticks at the end
\* of the observed sequence whose Fingerprint equals that of the tick before
\* (the initial lastFingerprint "" standing before tick 1): a differing
\* Fingerprint resets it to zero, so at a success the counted ticks are the
\* last ones, consecutive, and carry the Fingerprint of the last tick.
C2_CounterResetOnChange ==
  \A r \in Requests :
    call[r].tool = "wait_for_ui_stable" =>
      LET seen == <<<<>>>> \o Fps(r)
      IN /\ call[r].stableCount = EqualSuffix(seen) - 1
         /\ call[r].lastFingerprint = seen[Len(seen)]
         /\ call[r].pc = "Success" =>
              /\ Ticks(r) >= StableThreshold
              /\ \A k \in (Len(seen) - StableThreshold)..Len(seen) :
                   seen[k] = seen[Len(seen)]

\* a success after the counter had counted a tick and was reset by a change
C2_Witness ==
  \E r \in Requests :
    /\ call[r].tool = "wait_for_ui_stable"
    /\ call[r].pc = "Success"
    /\ LET seen == <<<<>>>> \o Fps(r)
       IN \E k \in 1..(Len(seen) - 2) :
            seen[k] = seen[k + 1] /\ seen[k + 1] # seen[k + 2]

(***************************************************************************)
(* C3  wait_for_element                                                    *)
(***************************************************************************)
\* C3: wait_for_element reports success at the first tick whose dump
\* contains the text, letter case ignored, and issues no remote command after
\* that tick; it reports a timeout only if no tick contained the text.
C3_AppearFirstHit ==
  \A r \in Requests :
    call[r].tool = "wait_for_element" =>
      /\ \A k \in 1..(Ticks(r) - 1) : ~Hit(r, k)
      /\ (Ticks(r) >= 1 /\ Hit(r, Ticks(r))) =>
           (call[r].pc = "Success" /\ Len(hist[r].cmds) = 2 * Ticks(r))
      /\ call[r].pc = "Success" => (Ticks(r) >= 1 /\ Hit(r, Ticks(r)))
      /\ call[r].pc = "Timeout" => \A k \in 1..Ticks(r) : ~Hit(r, k)

\* the text appears at the second tick or later
C3_Witness ==
  \E r \in Requests :
    /\ call[r].tool = "wait_for_element"
    /\ call[r].pc = "Success"
    /\ Ticks(r) >= 2
    /\ Hit(r, Ticks(r))

(***************************************************************************)
(* C4  wait_for_element_gone                                               *)
(***************************************************************************)
\* C4: wait_for_element_gone reports success at the first tick whose dump
\* does not contain the text, letter case ignored, and reports a timeout only
\* if every tick contained the text.
C4_GoneFirstMiss ==
  \A r \in Requests :
    call[r].tool = "wait_for_element_gone" =>
      /\ \A k \in 1..(Ticks(r) - 1) : Hit(r, k)
      /\ (Ticks(r) >= 1 /\ ~Hit(r, Ticks(r))) => call[r].pc = "Success"
      /\ call[r].pc = "Success" => (Ticks(r) >= 1 /\ ~Hit(r, Ticks(r)))
      /\ call[r].pc = "Timeout" => \A k \in 1..Ticks(r) : Hit(r, k)

\* the text is gone at the second tick or later
C4_Witness ==
  \E r \in Requests :
    /\ call[r].tool = "wait_for_element_gone"
    /\ call[r].pc = "Success"
    /\ Ticks(r) >= 2
    /\ ~Hit(r, Ticks(r))

(***************************************************************************)
(* C5, C6  scroll_to_text                                                  *)
(***************************************************************************)
\* C5: scroll_to_text looks before it scrolls on every attempt: each swipe
\* follows a dump refresh and a read of the same attempt whose dump lacked
\* the text; when the text is found on attempt i (0-based), exactly i swipes
\* have been issued and the read of that attempt is the last command.
C5_CheckBeforeScroll ==
  \A r \in Requests :
    call[r].tool = "scroll_to_text" =>
      LET names == CmdNames(r)
      IN /\ \A k \in 1..Len(names) :
              names[k] = "input swipe" =>
                /\ k >= 3
                /\ names[k - 1] = "cat" /\ names[k - 2] = "uiautomator dump"
                /\ Cardinality({j \in 1..k : names[j] = "cat"}) <= Ticks(r)
                /\ ~Hit(r, Cardinality({j \in 1..k : names[j] = "cat"}))
         /\ call[r].pc = "Success" =>
              /\ Ticks(r) = call[r].i + 1
              /\ Hit(r, Ticks(r))
              /\ Gestures(r) = call[r].i
              /\ names[Len(names)] = "cat"

\* the text is found after one swipe
C5_Witness ==
  \E r \in Requests :
    /\ call[r].tool = "scroll_to_text"
    /\ call[r].pc = "Success"
    /\ call[r].i = 1
    /\ Gestures(r) = 1

\* C6: scroll_to_text never issues more than maxScrolls swipes in one call;
\* with maxScrolls = 0 it issues none, takes no snapshot, and ends not-found.
C6_AtMostMaxScrolls ==
  \A r \in Requests :
    call[r].tool = "scroll_to_text" =>
      /\ Gestures(r) <= call[r].maxScrolls
      /\ call[r].maxScrolls = 0 =>
           /\ Gestures(r) = 0
           /\ Ticks(r) = 0
           /\ call[r].pc \in {"wm size", "Exhausted", "Error"}

\* maxScrolls = 0 ends not-found while the text is not on the screen
C6_Witness ==
  \E r \in Requests :
    /\ call[r].tool = "scroll_to_text"
    /\ call[r].maxScrolls = 0
    /\ call[r].pc = "Exhausted"
    /\ ~ContainsIgnoringCase(Dumps[screen], Texts[call[r].text])

(***************************************************************************)
(* C7  terminal states                                                     *)
(***************************************************************************)
\* the terminal states the state machine of the specification names
NamedTerminal(tool) ==
  IF tool = "scroll_to_text" THEN {"Success", "Exhausted"}
  ELSE {"Success", "Timeout"}

\* C7 as stated: a call ends in Success or Timeout (wait tools), Success or
\* Exhausted (scroll_to_text), and in no other terminal state.
C7_OnlyNamedTerminals ==
  \A r \in Requests :
    call[r].pc \in Terminal => call[r].pc \in NamedTerminal(call[r].tool)

\* one step of request r, as C7 amended allows it
C7Step(r) ==
  LET c == call[r]
      d == call'[r]
  IN /\ c.pc \in Terminal => (d = c /\ hist'[r] = hist[r])
     /\ (c.pc \notin Terminal /\ d.pc \in Terminal) =>
          /\ d.pc \in NamedTerminal(d.tool) \cup {"Error"}
          /\ d.pc = "Timeout" => now - d.startTime >= d.timeoutMs
          /\ d.pc = "Exhausted" => d.i >= d.maxScrolls
          /\ d.pc = "Error" =>
               (c.pc \in Commands /\ hist'[r].failures = hist[r].failures + 1)
          /\ d.pc # "Error" => hist'[r].failures = hist[r].failures

\* C7 amended: a call ends in exactly one terminal state, which is Success,
\* Timeout (wait tools) or Exhausted (scroll_to_text), or the failure thrown
\* by a remote command; a call that has not succeeded is ended only by the
\* deadline, by the attempt budget, or by such a failure, and a call that
\* has ended does nothing more.
C7_TerminalsWithFailure == [][\A r \in Requests : C7Step(r)]_vars

\* a wait that ran out of time after polling twice or more
C7_Witness ==
  \E r \in Requests :
    /\ call[r].tool \in WaitTools
    /\ call[r].pc = "Timeout"
    /\ Ticks(r) >= 2

(***************************************************************************)
(* C8  a failing remote command                                            *)
(***************************************************************************)
\* one step of request r, as C8 allows it
C8Step(r) ==
  /\ hist'[r].failures > hist[r].failures =>
       /\ call'[r].pc = "Error"
       /\ hist'[r].cmds = hist[r].cmds
       /\ call'[r].wake = call[r].wake
  /\ hist[r].failures > 0 => (call'[r] = call[r] /\ hist'[r] = hist[r])

\* C8: the failure of a remote command during a call ends the call at once:
\* the command is not issued again, and the call issues no further remote
\* command, swipe or sleep.
C8_FailureAborts == [][\A r \in Requests : C8Step(r)]_vars

\* a call that failed in its second tick or later
C8_Witness ==
  \E r \in Requests :
    /\ call[r].pc = "Error"
    /\ hist[r].failures = 1
    /\ Ticks(r) >= 1
    /\ Issued(r, "uiautomator dump") >= 2

(***************************************************************************)
(* C9  snapshot acquisition                                                *)
(***************************************************************************)
\* one step of request r, as C9 allows it
C9Step(r) ==
  LET c == call[r]
      d == call'[r]
      n == Len(hist[r].cmds)
  IN \* the refresh, when it returns, is followed by the read
     /\ (c.pc = "uiautomator dump" /\ d # c) => d.pc \in {"cat", "Error"}
     \* the read is issued only when the refresh of the same tick returns
     /\ (d.pc = "cat" /\ c.pc # "cat") =>
          (c.pc = "uiautomator dump" /\ dumpFile' = screen)
     \* a dump is evaluated only when the read returns, and it is the dump
     \* that read returned
     /\ Len(hist'[r].obs) > Len(hist[r].obs) =>
          /\ c.pc = "cat"
          /\ n >= 2
          /\ hist[r].cmds[n].cmd = "cat"
          /\ hist[r].cmds[n - 1].cmd = "uiautomator dump"
          /\ hist'[r].obs = Append(hist[r].obs, dumpFile)
          /\ Issued(r, "cat") = Len(hist'[r].obs)
          /\ Issued(r, "uiautomator dump") = Len(hist'[r].obs)

\* C9: every snapshot acquisition is one dump-refresh command followed by one
\* read-dump command of the same call, with no other command of that call
\* between them, and a tick evaluates the dump its own read returned after
\* its own refresh.
C9_RefreshThenRead == [][\A r \in Requests : C9Step(r)]_vars

\* a call that has acquired two snapshots
C9_Witness ==
  \E r \in Requests :
    /\ Ticks(r) = 2
    /\ Issued(r, "uiautomator dump") = 2
    /\ Issued(r, "cat") = 2

StartsTick(r) ==
  /\ Len(hist'[r].cmds) = Len(hist[r].cmds) + 1
  /\ hist'[r].cmds[Len(hist'[r].cmds)].cmd = "uiautomator dump"

\* r is a wait_for_element called with a timeout of one second
OneSecondWait(r) ==
  call[r].tool = "wait_for_element" /\ call[r].timeoutMs = 2

\* C11: when every remote command returns and the clock advances, a
\* wait_for_element called with a timeout of 1 second whose dumps never
\* contain the text ends in the timeout outcome and not in a thrown error,
\* and it starts no tick once the deadline has elapsed.
C11_TimeoutTerminates ==
  /\ \A r \in Requests :
       OneSecondWait(r)
         ~> (call[r].pc = "Timeout" \/ \E k \in 1..Ticks(r) : Hit(r, k))
  /\ [](\A r \in Requests : OneSecondWait(r) => call[r].pc # "Error")
  /\ [][\A r \in Requests :
          StartsTick(r) => now - call'[r].startTime < call'[r].timeoutMs]_vars

\* a wait of one second that timed out after polling dumps without the text
C11_Witness ==
  \E r \in Requests :
    /\ OneSecondWait(r)
    /\ call[r].pc = "Timeout"
    /\ Ticks(r) >= 2
    /\ \A k \in 1..Ticks(r) : ~Hit(r, k)
    /\ now - call[r].startTime >= call[r].timeoutMs

(***************************************************************************)
(* Vocabulary of the locating tools                                        *)
(***************************************************************************)
\* r has read its dump and computed its result from it
Located(r) == call[r].tool \in LocateTools \cup TextTools /\ Ticks(r) = 1

\* the layout whose dump r has read
LayoutOf(r) == Layouts[call[r].xml]

\* the result of r's tool on the dump r has read, for the query q
ResultFor(r, q) == ToolResult(call[r].tool, LayoutDumps[call[r].xml], q)

\* r was called with both a text and a resourceId
BothGiven(r) == Truthy(call[r].text) /\ Truthy(call[r].resourceId)

\* the query of r with one argument left out
TextOnly(r) == [call[r] EXCEPT !.resourceId = Undef]
IdOnly(r) == [call[r] EXCEPT !.text = Undef]

(***************************************************************************)
(* C12  a query with both text and resourceId                              *)
(***************************************************************************)
\* C12 as stated: in tap_element, get_element_bounds and is_element_visible,
\* when the caller supplies both text and resourceId the match is decided by
\* resourceId alone: the result is the one the same call gives without text.
C12_ResourceIdAloneDecides ==
  \A r \in Requests :
    (Located(r) /\ call[r].tool \in LocateTools /\ BothGiven(r))
      => call[r].result = ResultFor(r, IdOnly(r))

\* C12 amended: with both supplied, tap_element decides by resourceId alone,
\* get_element_bounds decides by text alone, and is_element_visible reports
\* the element found by text and falls back to resourceId only when the text
\* finds none.
C12_PrecedencePerTool ==
  \A r \in Requests :
    (Located(r) /\ call[r].tool \in LocateTools /\ BothGiven(r))
      => call[r].result =
           CASE call[r].tool = "tap_element" -> ResultFor(r, IdOnly(r))
             [] call[r].tool = "get_element_bounds" -> ResultFor(r, TextOnly(r))
             [] call[r].tool = "is_element_visible" ->
                  IF ResultFor(r, TextOnly(r)).kind = "found"
                    THEN ResultFor(r, TextOnly(r))
                    ELSE ResultFor(r, IdOnly(r))

\* a tap_element called with a text and a resourceId that name two different
\* elements of the layout
C12_Witness ==
  \E r \in Requests :
    /\ Located(r) /\ call[r].tool = "tap_element" /\ BothGiven(r)
    /\ call[r].result.kind = "found"
    /\ ResultFor(r, TextOnly(r)).kind = "found"
    /\ ResultFor(r, TextOnly(r)).rect # call[r].result.rect

(***************************************************************************)
(* C13  a query by resourceId                                              *)
(***************************************************************************)
\* the number a digit stands for
DigitValue(ch) == CHOOSE n \in 0..9 : Code[ch] = 48 + n

\* the rectangle of an element of a layout
RectOf(e) ==
  [x1 |-> DigitValue(e.b[1]), y1 |-> DigitValue(e.b[2]),
   x2 |-> DigitValue(e.b[3]), y2 |-> DigitValue(e.b[4])]

\* the resourceId of r decides its match
ByIdAlone(r) ==
  /\ Truthy(call[r].resourceId)
  /\ call[r].tool = "tap_element"
       \/ (call[r].tool \in LocateTools /\ ~Truthy(call[r].text))

\* C13: an identifier query matches an element only when the element's
\* resource-id is equal, as a string, to the queried resourceId: the element
\* a query by resourceId locates has exactly that resource-id.
C13_IdExactEquality ==
  \A r \in Requests :
    (Located(r) /\ ByIdAlone(r) /\ call[r].result.kind = "found")
      => \E k \in DOMAIN LayoutOf(r) :
           /\ LayoutOf(r)[k].id = call[r].resourceId
           /\ RectOf(LayoutOf(r)[k]) = call[r].result.rect

(***************************************************************************)
(* C14  the choice by index among the matches                              *)
(***************************************************************************)
\* a and b are the same string when letter case is ignored
EqualsIgnoringCase(a, b) ==
  Len(a) = Len(b) /\ \A k \in 1..Len(a) : LowerChar(a[k]) = LowerChar(b[k])

\* the element's own text matches the text query
TextMatches(e, text, exact) ==
  IF exact THEN EqualsIgnoringCase(e.text, text)
  ELSE ContainsIgnoringCase(e.text, text)

\* the text of r decides its match
ByText(r) ==
  /\ Truthy(call[r].text)
  /\ \/ call[r].tool = "tap_text"
     \/ call[r].tool = "tap_element" /\ ~Truthy(call[r].resourceId)
     \/ call[r].tool = "get_element_bounds"

\* the elements of the layout r has read whose text matches r's query, in
\* document order
MatchingElements(r) ==
  SelectSeq(LayoutOf(r),
            LAMBDA e : TextMatches(e, call[r].text, call[r].exact))

IndexTools == {"tap_element", "get_element_bounds"}

\* C14: in get_element_bounds and tap_element, index k >= 0 locates the
\* (k+1)-th matching element in document order of the dump (index 1 the
\* second of two, index 0 the first); an index at or beyond the number of
\* matches gives an out-of-range result that is not a success and carries
\* the match count (index 2 of two matches carries 2); no match gives a
\* not-found result.
C14_IndexSelectsInDocumentOrder ==
  \A r \in Requests :
    (Located(r) /\ call[r].tool \in IndexTools /\ ByText(r)
       /\ call[r].index >= 0)
      => IF MatchingElements(r) = <<>>
           THEN call[r].result.kind = "not_found"
         ELSE IF call[r].index >= Len(MatchingElements(r))
           THEN /\ call[r].result.kind = "out_of_range"
                /\ call[r].result.matchCount = Len(MatchingElements(r))
         ELSE /\ call[r].result.kind = "found"
              /\ call[r].result.rect
                   = RectOf(MatchingElements(r)[call[r].index + 1])

\* index 1 among two matching elements located the second of them
C14_Witness ==
  \E r \in Requests :
    /\ Located(r) /\ call[r].tool \in IndexTools /\ ByText(r)
    /\ Len(MatchingElements(r)) = 2
    /\ call[r].index = 1
    /\ call[r].result.kind = "found"
    /\ call[r].result.rect = RectOf(MatchingElements(r)[2])
    /\ call[r].result.rect # RectOf(MatchingElements(r)[1])

(***************************************************************************)
(* C15  what makes a locating call raise                                   *)
(***************************************************************************)
\* C15: get_element_bounds and tap_element never throw from parsing or
\* matching, whatever the dump, the query and the index: a call of theirs
\* ends in a thrown error only after a remote command has failed.
C15_OnlyRemoteFailureRaises ==
  \A r \in Requests :
    (call[r].tool \in IndexTools /\ call[r].pc = "Error")
      => hist[r].failures >= 1

ExactTools == {"tap_text", "tap_element", "assert_screen_contains"}

\* the query of r matched an element, whatever its index then selected
Matched(r) == call[r].result.kind # "not_found"

\* the exact flag of r decides its match
ByExactText(r) ==
  /\ call[r].tool \in ExactTools
  /\ call[r].exact
  /\ Truthy(call[r].text) /\ ~Truthy(call[r].resourceId)

\* C17 as stated: with exact = true, tap_text, tap_element and
\* assert_screen_contains match exactly when an element's whole text equals
\* the query with letter case ignored ("Log" does not match "Login",
\* "login" matches "Login").
C17_ExactIgnoresCase ==
  \A r \in Requests :
    (Located(r) /\ ByExactText(r))
      => (Matched(r)
            <=> \E k \in DOMAIN LayoutOf(r) :
                  EqualsIgnoringCase(LayoutOf(r)[k].text, call[r].text))

\* C17 amended: with exact = true, tap_text and tap_element match exactly
\* when an element's whole text equals the query with letter case ignored;
\* assert_screen_contains passes exactly when an element's whole text equals
\* the query character by character, letter case included.
C17_ExactPerTool ==
  \A r \in Requests :
    (Located(r) /\ ByExactText(r))
      => (Matched(r)
            <=> \E k \in DOMAIN LayoutOf(r) :
                  IF call[r].tool = "assert_screen_contains"
                    THEN LayoutOf(r)[k].text = call[r].text
                    ELSE EqualsIgnoringCase(LayoutOf(r)[k].text, call[r].text))

\* assert_screen_contains with exact = true failed for "login" on a layout
\* with an element whose text is "Login"
C17_Witness ==
  \E r \in Requests :
    /\ Located(r) /\ ByExactText(r)
    /\ call[r].tool = "assert_screen_contains"
    /\ call[r].text = <<"l", "o", "g", "i", "n">>
    /\ \E k \in DOMAIN LayoutOf(r) :
         LayoutOf(r)[k].text = <<"L", "o", "g", "i", "n">>
    /\ call[r].result.kind = "not_found"

(***************************************************************************)
(* C18  regex metacharacters in the query text                             *)
(***************************************************************************)
\* the query text of r holds a regex metacharacter
HasMetaChar(r) == \E k \in DOMAIN call[r].text : call[r].text[k] \in MetaChars

\* C18: in tap_element and tap_text, with exact either way, a query text
\* that holds regex metacharacters locates an element only if that element's
\* text holds those same characters literally, and it finds none only if no
\* element's text does.
C18_MetaCharsAreLiteral ==
  \A r \in Requests :
    (Located(r) /\ ByText(r) /\ call[r].tool \in TapTools /\ HasMetaChar(r))
      => /\ Matched(r)
              <=> \E k \in DOMAIN LayoutOf(r) :
                    TextMatches(LayoutOf(r)[k], call[r].text, call[r].exact)
         /\ call[r].result.kind = "found"
              => \A k \in DOMAIN LayoutOf(r) :
                   RectOf(LayoutOf(r)[k]) = call[r].result.rect
                     => TextMatches(LayoutOf(r)[k], call[r].text, call[r].exact)

\* the query "a.c" located the element with text "a.c" in a layout that also
\* holds an element with text "abc"
C18_Witness ==
  \E r \in Requests :
    /\ Located(r) /\ ByText(r) /\ call[r].tool \in TapTools
    /\ call[r].text = <<"a", ".", "c">>
    /\ call[r].result.kind = "found"
    /\ \E k \in DOMAIN LayoutOf(r) :
         /\ LayoutOf(r)[k].text = <<"a", ".", "c">>
         /\ RectOf(LayoutOf(r)[k]) = call[r].result.rect
    /\ \E k \in DOMAIN LayoutOf(r) : LayoutOf(r)[k].text = <<"a", "b", "c">>

(***************************************************************************)
(* C19  the Fingerprint and the bounds of the elements                     *)
(***************************************************************************)
\* the two snapshots taken, once there are two
Snap(k) == hist[1].obs[k]

\* the number of bounds components in which elements e and f differ by one
\* unit, or 99 when they differ otherwise
BoundsDistance(e, f) ==
  IF e.text # f.text \/ e.class # f.class
       \/ \E i \in 1..4 : parseInt(<<e.b[i]>>) - parseInt(<<f.b[i]>>)
                            \notin {-1, 0, 1}
    THEN 99
    ELSE Cardinality({i \in 1..4 : e.b[i] # f.b[i]})

\* screens a and b are the same but for one bounds component, one unit
\* apart, of one element that has a text or a class
OneUnitApart(a, b) ==
  /\ a.loose = b.loose
  /\ Len(a.nodes) = Len(b.nodes)
  /\ \E k \in DOMAIN a.nodes :
       /\ BoundsDistance(a.nodes[k], b.nodes[k]) = 1
       /\ a.nodes[k].text # <<>> \/ a.nodes[k].class # <<>>
       /\ \A j \in DOMAIN a.nodes \ {k} : a.nodes[j] = b.nodes[j]

\* C19: for well-formed dumps of <node ...> tags, the Fingerprint changes
\* whenever one bounds component of an element with a non-empty text or a
\* non-empty class changes by one unit.
C19_BoundsChangeChangesFingerprint ==
  (/\ Len(hist[1].obs) = 2
   /\ ~Snap(1).screen.loose
   /\ OneUnitApart(Snap(1).screen, Snap(2).screen))
    => Snap(1).fingerprint # Snap(2).fingerprint

(***************************************************************************)
(* C20  the Fingerprint and the order of the elements                      *)
(***************************************************************************)
\* screen b holds the elements of screen a in another order
Reordered(a, b) ==
  /\ a.loose = b.loose
  /\ Len(a.nodes) = 2 /\ Len(b.nodes) = 2
  /\ b.nodes[1] = a.nodes[2] /\ b.nodes[2] = a.nodes[1]

\* C20: the Fingerprint of a dump whose elements are permuted is the
\* Fingerprint of the original dump, byte for byte.
C20_ReorderKeepsFingerprint ==
  (Len(hist[1].obs) = 2 /\ Reordered(Snap(1).screen, Snap(2).screen))
    => Snap(1).fingerprint = Snap(2).fingerprint

(***************************************************************************)
(* Vocabulary of the enumerating tools                                     *)
(***************************************************************************)
\* the calls the client has made on the screen
EnumCalls == {hist[1].obs[k] : k \in DOMAIN hist[1].obs}

(***************************************************************************)
(* C21  the window-scoped scan and the loose scan                          *)
(***************************************************************************)
\* C21: on every well-formed dump the loose scan of get_ui_tree and the
\* window-scoped scan of get_all_text (includeEmpty left out) recognize the
\* same elements in the same order: the same texts with the same bounds, and
\* so with the same centers.
C21_ScansAgree ==
  \A a, b \in EnumCalls :
    (a.args.tool = "get_ui_tree" /\ b.args.tool = "get_all_text"
       /\ ~b.args.flag)
      => a.result.pushed = b.result.pushed

(***************************************************************************)
(* C22  the center and the size of a located element                       *)
(***************************************************************************)
\* the reports get_element_bounds has returned
BoundsReports == {hist[1].obs[k] : k \in DOMAIN hist[1].obs}

\* c is n / 2 rounded to the nearest integer, a half rounded up
IsHalfRounded(c, n) == 2 * c = n \/ 2 * c = n + 1

\* C22: for a located element with bounds (x1,y1,x2,y2), get_element_bounds
\* reports the center (round((x1+x2)/2), round((y1+y2)/2)), the width x2-x1
\* and the height y2-y1; for the dump text="Submit"
\* bounds="[100,200][300,250]" and the text query "Submit" the center is
\* (200,225); when x2 >= x1 and y2 >= y1 the center lies inside the bounds.
C22_CenterAndSize ==
  \A o \in BoundsReports :
    /\ o.result.found
    /\ IsHalfRounded(o.result.center.x, o.screen.x1 + o.screen.x2)
    /\ IsHalfRounded(o.result.center.y, o.screen.y1 + o.screen.y2)
    /\ o.result.bounds.width = o.screen.x2 - o.screen.x1
    /\ o.result.bounds.height = o.screen.y2 - o.screen.y1
    /\ (o.screen = [x1 |-> 100, y1 |-> 200, x2 |-> 300, y2 |-> 250]
          /\ o.text = SubmitText)
         => (o.result.center.x = 200 /\ o.result.center.y = 225)
    /\ (o.screen.x2 >= o.screen.x1 /\ o.screen.y2 >= o.screen.y1)
         => /\ o.screen.x1 <= o.result.center.x
            /\ o.result.center.x <= o.screen.x2
            /\ o.screen.y1 <= o.result.center.y
            /\ o.result.center.y <= o.screen.y2

\* the dump and the query of the example
C22_Witness ==
  \E o \in BoundsReports :
    /\ o.result.found
    /\ o.screen = [x1 |-> 100, y1 |-> 200, x2 |-> 300, y2 |-> 250]
    /\ o.text = SubmitText
    /\ o.result.center = [x |-> 200, y |-> 225]

(***************************************************************************)
(* C23  the order of the listings                                          *)
(***************************************************************************)
\* how many times e occurs in the sequence q
Count(q, e) == Cardinality({k \in DOMAIN q : q[k] = e})

\* a comes before b from top to bottom, then from left to right
Precedes(a, b) ==
  \/ a.centerY < b.centerY
  \/ a.centerY = b.centerY /\ a.centerX <= b.centerX

SortingTools == {"get_all_text", "get_clickable_elements"}

\* C23: get_all_text and get_clickable_elements list their elements by
\* ascending center-Y and, among equal center-Y, by ascending center-X,
\* whatever the document order of the dump, and the listing holds each
\* element as many times as the scan has pushed it.
C23_ListingIsSorted ==
  \A c \in EnumCalls :
    c.args.tool \in SortingTools =>
      /\ \A i, j \in DOMAIN c.result.listed :
           i < j => Precedes(c.result.listed[i], c.result.listed[j])
      /\ Len(c.result.listed) = Len(c.result.pushed)
      /\ \A k \in DOMAIN c.result.pushed :
           Count(c.result.listed, c.result.pushed[k])
             = Count(c.result.pushed, c.result.pushed[k])

\* two elements of one row that the dump holds from right to left
C23_Witness ==
  \E c \in EnumCalls :
    /\ c.args.tool \in SortingTools
    /\ Len(c.result.pushed) = 2
    /\ c.result.pushed[1].centerY = c.result.pushed[2].centerY
    /\ c.result.pushed[1].centerX > c.result.pushed[2].centerX
    /\ c.result.listed = <<c.result.pushed[2], c.result.pushed[1]>>

(***************************************************************************)
(* C24  tap_safe                                                           *)
(***************************************************************************)
\* the tap commands request r has issued
Taps(r) ==
  {hist[r].cmds[k].args :
     k \in {j \in DOMAIN hist[r].cmds : hist[r].cmds[j].cmd = "input tap"}}

\* the point (x, y) is outside the status bar, the navigation bar and the
\* side margins of a screen of the size the device reported to c
InSafeArea(c, x, y) ==
  /\ statusBarHeight <= y /\ y <= c.screenHeight - navBarHeight
  /\ SafeMargin <= x /\ x <= c.screenWidth - SafeMargin

\* C24: with avoidStatusBar and avoidNavBar both true, for every requested
\* (x, y) and every screen size the device reports, the tap tap_safe issues
\* has 50 <= y <= screenHeight - 120 and 10 <= x <= screenWidth - 10, and a
\* requested point already inside that area is tapped unchanged.
C24_TapInsideSafeArea ==
  \A r \in Requests :
    (call[r].tool = "tap_safe" /\ call[r].avoidStatusBar
       /\ call[r].avoidNavBar)
      => \A t \in Taps(r) :
           /\ InSafeArea(call[r], t[1], t[2])
           /\ InSafeArea(call[r], call[r].x, call[r].y)
                => t = <<call[r].x, call[r].y>>

(***************************************************************************)
(* C25  the clipboard round trip                                           *)
(***************************************************************************)
\* the clipboard calls of r that have returned, in order
ClipLog(r) == hist[r].obs

\* C25: when set_clipboard(t) has reported success for a non-empty text t,
\* the get_clipboard that follows it with no set_clipboard in between
\* returns t, whichever path the write succeeded on and whatever earlier
\* calls left in either path.
C25_ClipboardRoundTrip ==
  \A r \in Requests :
    \A k \in 2..Len(ClipLog(r)) :
      (/\ ClipLog(r)[k].tool = "get_clipboard"
       /\ ClipLog(r)[k - 1].tool = "set_clipboard"
       /\ ClipLog(r)[k - 1].success)
        => ClipLog(r)[k].content = ClipLog(r)[k - 1].text


(***************************************************************************)
(* C26: under every interleaving of the calls the server runs, the dump an *)
(* operation reads with cat is the one its own preceding uiautomator dump  *)
(* wrote: while a handler waits for its cat, no other call's refresh puts  *)
(* the dump of another screen into /sdcard/ui_dump.xml.                    *)
(***************************************************************************)
AwaitsRead(r) == call[r].pc = SnapshotCmds[2]

C26_ReadsOwnDump ==
  [][\A r \in Requests : AwaitsRead(r) => dumpFile' = dumpFile]_vars


(***************************************************************************)
(* C27: on a screen whose Fingerprint is the same at every tick of the     *)
(* call, wait_for_ui_stable reports success at one tick number, the same   *)
(* for every Fingerprint, the empty one included: the tick after           *)
(* StableThreshold repetitions of the first Fingerprint.                   *)
(***************************************************************************)
ConstantFingerprint(r) ==
  /\ call[r].tool = "wait_for_ui_stable"
  /\ \A k \in 1..Ticks(r) : Fps(r)[k] = Fps(r)[1]

C27_SameTickForEveryFingerprint ==
  \A r \in Requests :
    (ConstantFingerprint(r) /\ call[r].pc = "Success")
      => Ticks(r) = StableThreshold + 1


(***************************************************************************)
(* C28: when scroll_to_text reports that the text was not found, every     *)
(* swipe the call issued was followed by a snapshot of the screen: no      *)
(* gesture is the last thing the call did before it reported.              *)
(***************************************************************************)
SnapshotAfter(r, k) ==
  \E j \in (k + 1)..Len(hist[r].cmds) : hist[r].cmds[j].cmd = SnapshotCmds[2]

C28_SnapshotAfterLastGesture ==
  \A r \in Requests :
    (call[r].tool = "scroll_to_text" /\ call[r].pc = "Exhausted")
      => \A k \in 1..Len(hist[r].cmds) :
           hist[r].cmds[k].cmd = "input swipe" => SnapshotAfter(r, k)


(***************************************************************************)
(* C29: wait_for_element, wait_for_element_gone and wait_for_ui_stable     *)
(* report a timeout only after the call has acquired and evaluated at      *)
(* least one snapshot, whatever timeout the caller passes, 0 included; a   *)
(* timeout of wait_for_element_gone then has a snapshot holding the text.  *)
(***************************************************************************)
TextSeenAt(r, k) == includesCI(Dumps[hist[r].obs[k]], Texts[call[r].text])

C29_TimeoutAfterASnapshot ==
  \A r \in Requests :
    (call[r].tool \in WaitTools /\ call[r].pc = "Timeout")
      => /\ Ticks(r) >= 1
         /\ call[r].tool = "wait_for_element_gone"
              => \E k \in 1..Ticks(r) : TextSeenAt(r, k)


(***************************************************************************)
(* C30: tap_element and tap_text issue exactly one input tap, at the       *)
(* center of the match they selected, when their locate succeeds; they     *)
(* issue no input command when the result is not found, out of range or    *)
(* an invalid query, and a tap_element given neither text nor resourceId   *)
(* issues no remote command at all, not even the dump refresh.             *)
(***************************************************************************)
\* r was called with neither a text nor a resourceId
NoQuery(r) == ~Truthy(call[r].text) /\ ~Truthy(call[r].resourceId)

\* the positions of the taps among the commands r has issued
TapsOf(r) ==
  {k \in 1..Len(hist[r].cmds) : hist[r].cmds[k].cmd = "input tap"}

\* r has located an element
Succeeded(r) == Located(r) /\ call[r].result.kind = "found"

C30_OneTapOnSuccessOnly ==
  \A r \in Requests :
    call[r].tool \in TapTools =>
      /\ NoQuery(r) => hist[r].cmds = <<>>
      /\ \A k \in 1..Len(hist[r].cmds) :
           hist[r].cmds[k].cmd \in {"uiautomator dump", "cat", "input tap"}
      /\ \A k \in TapsOf(r) :
           /\ Succeeded(r)
           /\ TapsOf(r) = {k}
           /\ hist[r].cmds[k].args = Center(call[r].result.rect)
      /\ (Succeeded(r) /\ call[r].pc = "Returned") => TapsOf(r) # {}

\* a tap_element with index 1 returned after one tap at the center of the
\* second match
C30_Witness ==
  \E r \in Requests :
    /\ call[r].tool = "tap_element" /\ call[r].pc = "Returned"
    /\ Succeeded(r) /\ call[r].index = 1
    /\ Cardinality(TapsOf(r)) = 1
    /\ \A k \in TapsOf(r) :
         hist[r].cmds[k].args = Center(call[r].result.rect)

====
